---- MODULE Spec2Model ----
(***************************************************************************)
(* Fieldwork (FieldTrack Pro): the admin dashboard's aggregation and       *)
(* filtering layer over the fetched list of visit records, the visit form  *)
(* that writes visits and activity entries, and login and registration     *)
(* against the remote store.                                               *)
(*                                                                         *)
(* Strings are sequences of one-character strings so that trim(),          *)
(* toLowerCase() and includes() are computed rather than assumed.  A       *)
(* missing optional field (undefined / null) is the value Null.            *)
(***************************************************************************)
EXTENDS Integers, Sequences, FiniteSets, TLC

VARIABLES
    db,              \* rows of the remote `visits` collection, newest first
    inflight,        \* fetchVisits requests issued and not yet answered
    issued,          \* number of fetchVisits requests issued so far
    visits,          \* useState<FieldVisit[]>
    loading,         \* useState(true)
    error,           \* useState<string | null>
    view,            \* useState<DashboardView>
    statusFilter,    \* useState<VisitStatus | 'all'>
    search,          \* useState('')
    stats,           \* useMemo [visits]
    workerStats,     \* useMemo [visits]
    filteredVisits,  \* useMemo [visits, statusFilter, search]
    editingVisit,    \* useState<FieldVisit | null>
    activityLog,     \* rows of the remote `visit_activities` collection
    users,           \* rows of the remote `users` collection
    form,            \* the mounted VisitForm (its useState values), or NoForm
    subs,            \* handleSubmit invocations of VisitForm that are running
    submits,         \* number of submissions that passed validatePhones
    timers,          \* pending setTimeout(() => onSuccess()) callbacks
    login,           \* the Login component (its useState values and handleAuth)
    reg,             \* the Register component of each client
    selectedVisit,   \* useState<FieldVisit | null>: the visit of the modal
    activities,      \* useState<VisitActivity[]>
    loadingActivities, \* useState(false)
    actflight,       \* fetchActivities requests issued and not yet answered
    selectedWorker   \* useState<string | null>: the worker of the profile

dashVars == <<inflight, issued, visits, loading, error, view, statusFilter,
              search, stats, workerStats, filteredVisits, editingVisit>>

formVars == <<form, subs, submits, timers>>

authVars == <<users, login, reg>>

detailVars == <<selectedVisit, activities, loadingActivities, actflight,
                selectedWorker>>

vars == <<db, activityLog, dashVars, formVars, authVars, detailVars>>

\* ------------------------------------------------------------------ bounds
MaxVisits == 3

\* ----------------------------------------------------------------- strings
Null == <<"NULL">>

Truthy(s) == s # Null /\ s # <<>>

Whitespace == {" "}

UpperCase == {"A", "B", "E", "J", "N", "U"}

LowerOf(c) ==
    CASE c = "A" -> "a"
      [] c = "B" -> "b"
      [] c = "E" -> "e"
      [] c = "J" -> "j"
      [] c = "N" -> "n"
      [] c = "U" -> "u"
      [] OTHER   -> c

toLowerCase(s) == [i \in 1..Len(s) |-> LowerOf(s[i])]

RECURSIVE trimStart(_)
trimStart(s) ==
    IF s # <<>> /\ Head(s) \in Whitespace THEN trimStart(Tail(s)) ELSE s

RECURSIVE trimEnd(_)
trimEnd(s) ==
    IF s # <<>> /\ s[Len(s)] \in Whitespace
    THEN trimEnd(SubSeq(s, 1, Len(s) - 1))
    ELSE s

trim(s) == trimEnd(trimStart(s))

includes(s, t) ==
    \E i \in 0..(Len(s) - Len(t)) : SubSeq(s, i + 1, i + Len(t)) = t

VisitStatus == {"follow_up", "converted", "rejected"}

Unknown == <<"U", "n", "k", "n", "o", "w", "n">>

\* ------------------------------------------------------------ visit records
\* The fields of FieldVisit that the aggregation layer reads.
FieldVisit(wn, wp, cn, cp, ce, b, st) ==
    [worker_name |-> wn, worker_phone |-> wp, client_name |-> cn,
     client_phone |-> cp, client_email |-> ce, budget |-> b, status |-> st]

Jane == <<"J", "a", "n", "e">>
Bob  == <<"B", "o", "b">>

\* all sequences over a set of records, up to a length
SeqsUpTo(S, n) == UNION {[1..k -> S] : k \in 0..n}

\* ------------------------------------------------------- aggregation layer
RECURSIVE reduceBudget(_, _)
reduceBudget(list, acc) ==
    IF list = <<>> THEN acc
    ELSE reduceBudget(Tail(list), acc + Head(list).budget)

\* Stats with the follow-up card counting every record that is not converted.
Stats_NotConverted(vs) ==
    LET followUpVisits  == SelectSeq(vs, LAMBDA v : v.status # "converted")
        convertedVisits == SelectSeq(vs, LAMBDA v : v.status = "converted")
        rejectedVisits  == SelectSeq(vs, LAMBDA v : v.status = "rejected")
    IN  [follow_up     |-> Len(followUpVisits),
         converted     |-> Len(convertedVisits),
         rejected      |-> Len(rejectedVisits),
         total_revenue |-> reduceBudget(convertedVisits, 0),
         total         |-> Len(vs)]

\* Stats with the revenue reduced over every record.
Stats_RevenueOfAll(vs) ==
    LET followUpVisits  == SelectSeq(vs, LAMBDA v : v.status = "follow_up")
        convertedVisits == SelectSeq(vs, LAMBDA v : v.status = "converted")
        rejectedVisits  == SelectSeq(vs, LAMBDA v : v.status = "rejected")
    IN  [follow_up     |-> Len(followUpVisits),
         converted     |-> Len(convertedVisits),
         rejected      |-> Len(rejectedVisits),
         total_revenue |-> reduceBudget(vs, 0),
         total         |-> Len(vs)]

Stats(vs) ==
    LET followUpVisits  == SelectSeq(vs, LAMBDA v : v.status = "follow_up")
        convertedVisits == SelectSeq(vs, LAMBDA v : v.status = "converted")
        rejectedVisits  == SelectSeq(vs, LAMBDA v : v.status = "rejected")
    IN  [follow_up     |-> Len(followUpVisits),
         converted     |-> Len(convertedVisits),
         rejected      |-> Len(rejectedVisits),
         total_revenue |-> reduceBudget(convertedVisits, 0),
         total         |-> Len(vs)]

\* The Map of workerStats: a sequence of [key, value] pairs in insertion order.
mapHas(map, k) == \E i \in 1..Len(map) : map[i].key = k

mapIndex(map, k) == CHOOSE i \in 1..Len(map) : map[i].key = k

\* const originalName = v.worker_name || 'Unknown'
originalNameOf(v) == IF Truthy(v.worker_name) THEN v.worker_name ELSE Unknown

\* const normalizedKey = originalName.trim().toLowerCase()
normalizedKeyOf(v) == toLowerCase(trim(originalNameOf(v)))

\* The forEach callback with a record that has no worker name left out.
workerStatsStep_SkipMissing(map, v) ==
    IF ~Truthy(v.worker_name) THEN map
    ELSE
    LET normalizedKey == normalizedKeyOf(v)
        map1 == IF ~mapHas(map, normalizedKey)
                THEN Append(map, [key   |-> normalizedKey,
                                  value |-> [name      |-> trim(originalNameOf(v)),
                                             total     |-> 0,
                                             converted |-> 0,
                                             follow_up |-> 0,
                                             rejected  |-> 0,
                                             phone     |-> v.worker_phone]])
                ELSE map
        i  == mapIndex(map1, normalizedKey)
        s  == map1[i].value
        s1 == [s EXCEPT !.total = @ + 1,
                        !.converted = IF v.status = "converted" THEN @ + 1 ELSE @,
                        !.follow_up = IF v.status = "follow_up" THEN @ + 1 ELSE @,
                        !.rejected  = IF v.status = "rejected"  THEN @ + 1 ELSE @]
        s2 == IF ~Truthy(s1.phone) /\ Truthy(v.worker_phone)
              THEN [s1 EXCEPT !.phone = v.worker_phone]
              ELSE s1
    IN  [map1 EXCEPT ![i].value = s2]

\* The forEach callback with the phone of every later record taken.
workerStatsStep_LastPhone(map, v) ==
    LET normalizedKey == normalizedKeyOf(v)
        map1 == IF ~mapHas(map, normalizedKey)
                THEN Append(map, [key   |-> normalizedKey,
                                  value |-> [name      |-> trim(originalNameOf(v)),
                                             total     |-> 0,
                                             converted |-> 0,
                                             follow_up |-> 0,
                                             rejected  |-> 0,
                                             phone     |-> v.worker_phone]])
                ELSE map
        i  == mapIndex(map1, normalizedKey)
        s  == map1[i].value
        s1 == [s EXCEPT !.total = @ + 1,
                        !.converted = IF v.status = "converted" THEN @ + 1 ELSE @,
                        !.follow_up = IF v.status = "follow_up" THEN @ + 1 ELSE @,
                        !.rejected  = IF v.status = "rejected"  THEN @ + 1 ELSE @]
        s2 == IF Truthy(v.worker_phone)
              THEN [s1 EXCEPT !.phone = v.worker_phone]
              ELSE s1
    IN  [map1 EXCEPT ![i].value = s2]

\* The forEach callback without the branch that counts a rejected record.
workerStatsStep_NoRejected(map, v) ==
    LET normalizedKey == normalizedKeyOf(v)
        map1 == IF ~mapHas(map, normalizedKey)
                THEN Append(map, [key   |-> normalizedKey,
                                  value |-> [name      |-> trim(originalNameOf(v)),
                                             total     |-> 0,
                                             converted |-> 0,
                                             follow_up |-> 0,
                                             rejected  |-> 0,
                                             phone     |-> v.worker_phone]])
                ELSE map
        i  == mapIndex(map1, normalizedKey)
        s  == map1[i].value
        s1 == [s EXCEPT !.total = @ + 1,
                        !.converted = IF v.status = "converted" THEN @ + 1 ELSE @,
                        !.follow_up = IF v.status = "follow_up" THEN @ + 1 ELSE @]
        s2 == IF ~Truthy(s1.phone) /\ Truthy(v.worker_phone)
              THEN [s1 EXCEPT !.phone = v.worker_phone]
              ELSE s1
    IN  [map1 EXCEPT ![i].value = s2]

\* One iteration of visits.forEach in workerStats.
workerStatsStep(map, v) ==
    LET originalName  == originalNameOf(v)
        normalizedKey == normalizedKeyOf(v)
        map1 == IF ~mapHas(map, normalizedKey)
                THEN Append(map, [key   |-> normalizedKey,
                                  value |-> [name      |-> trim(originalName),
                                             total     |-> 0,
                                             converted |-> 0,
                                             follow_up |-> 0,
                                             rejected  |-> 0,
                                             phone     |-> v.worker_phone]])
                ELSE map
        i  == mapIndex(map1, normalizedKey)
        s  == map1[i].value
        s1 == [s EXCEPT !.total = @ + 1,
                        !.converted = IF v.status = "converted" THEN @ + 1 ELSE @,
                        !.follow_up = IF v.status = "follow_up" THEN @ + 1 ELSE @,
                        !.rejected  = IF v.status = "rejected"  THEN @ + 1 ELSE @]
        s2 == IF ~Truthy(s1.phone) /\ Truthy(v.worker_phone)
              THEN [s1 EXCEPT !.phone = v.worker_phone]
              ELSE s1
    IN  [map1 EXCEPT ![i].value = s2]

RECURSIVE workerStatsForEach(_, _)
workerStatsForEach(map, list) ==
    IF list = <<>> THEN map
    ELSE workerStatsForEach(workerStatsStep(map, Head(list)), Tail(list))

\* workerStats with the entries listed last-inserted first.
WorkerStats_Reversed(vs) ==
    LET map == workerStatsForEach(<<>>, vs)
    IN  [i \in 1..Len(map) |-> map[Len(map) + 1 - i].value]

WorkerStats(vs) ==
    LET map == workerStatsForEach(<<>>, vs)
    IN  [i \in 1..Len(map) |-> map[i].value]

\* The predicate of the search filter (lines 231-236), s already lower-cased.
searchMatch(v, s) ==
    \/ includes(toLowerCase(v.client_name), s)
    \/ includes(toLowerCase(v.worker_name), s)
    \/ (Truthy(v.client_phone) /\ includes(v.client_phone, s))
    \/ (Truthy(v.client_email) /\ includes(toLowerCase(v.client_email), s))

\* filteredVisits with the first record of the result sliced off.
FilteredVisits_SkipFirst(vs, sf, srch) ==
    LET res1 == IF sf # "all"
                THEN SelectSeq(vs, LAMBDA v : v.status = sf)
                ELSE vs
        res2 == IF Truthy(srch)
                THEN LET s == toLowerCase(srch)
                     IN  SelectSeq(res1, LAMBDA v : searchMatch(v, s))
                ELSE res1
    IN  IF res2 = <<>> THEN res2 ELSE Tail(res2)

\* filteredVisits with the status selector not applied.
FilteredVisits_IgnoreStatus(vs, sf, srch) ==
    IF Truthy(srch)
    THEN LET s == toLowerCase(srch)
         IN  SelectSeq(vs, LAMBDA v : searchMatch(v, s))
    ELSE vs

FilteredVisits(vs, sf, srch) ==
    LET res1 == IF sf # "all"
                THEN SelectSeq(vs, LAMBDA v : v.status = sf)
                ELSE vs
    IN  IF Truthy(srch)
        THEN LET s == toLowerCase(srch)
             IN  SelectSeq(res1, LAMBDA v : searchMatch(v, s))
        ELSE res1

\* A render whose filter removes the rejected records from the list itself.
Render_InPlace(prev, vs, sf, srch) ==
    LET kept == FilteredVisits(vs, sf, srch)
    IN  [visits         |-> kept,
         stats          |-> IF vs # prev.visits THEN Stats(vs) ELSE prev.stats,
         workerStats    |-> IF vs # prev.visits THEN WorkerStats(vs)
                            ELSE prev.workerStats,
         filteredVisits |-> kept]

\* One render of AdminDashboard: the three useMemo hooks, each recomputed
\* when one of its dependencies changed.  prev holds the previous render's
\* dependencies and memoized values; the result carries the record list as
\* the render leaves it.
Render(prev, vs, sf, srch) ==
    [visits         |-> vs,
     stats          |-> IF vs # prev.visits THEN Stats(vs) ELSE prev.stats,
     workerStats    |-> IF vs # prev.visits THEN WorkerStats(vs)
                        ELSE prev.workerStats,
     filteredVisits |-> IF \/ vs # prev.visits
                           \/ sf # prev.statusFilter
                           \/ srch # prev.search
                        THEN FilteredVisits(vs, sf, srch)
                        ELSE prev.filteredVisits]

Prev ==
    [visits |-> visits, statusFilter |-> statusFilter, search |-> search,
     stats |-> stats, workerStats |-> workerStats,
     filteredVisits |-> filteredVisits]

\* State update followed by the re-render it triggers.
SetState(vs, sf, srch) ==
    LET r == Render(Prev, vs, sf, srch)
    IN  /\ visits' = r.visits
        /\ statusFilter' = sf
        /\ search' = srch
        /\ stats' = r.stats
        /\ workerStats' = r.workerStats
        /\ filteredVisits' = r.filteredVisits

\* ------------------------------------------------------------------- inputs
\* Text typed into the table's search box.
SearchTerms == {<<>>, <<"a">>, <<"A">>, <<"9">>}

FetchFailure == <<"F", "e", "t", "c", "h">>

Budgets == {0, 500}

\* Status and budget vary; the remaining fields are fixed.
TallyPool ==
    {FieldVisit(Jane, Null, Bob, Null, Null, b, st) :
        b \in Budgets, st \in VisitStatus}

\* Worker names that differ in case and surrounding spaces, an empty name, a
\* blank name and a worker called "unknown"; phones absent, empty and given.
RollupPool ==
    {FieldVisit(Jane, <<>>, Bob, Null, Null, 500, "converted"),
     FieldVisit(<<" ", "j", "a", "n", "e", " ">>, <<"9", "8">>, Bob, Null, Null,
                0, "follow_up"),
     FieldVisit(<<"J", "A", "N", "E">>, <<"7", "7">>, Bob, Null, Null,
                0, "rejected"),
     FieldVisit(<<>>, Null, Bob, Null, Null, 0, "follow_up"),
     FieldVisit(<<" ">>, Null, Bob, Null, Null, 0, "follow_up"),
     FieldVisit(<<"u", "n", "k", "n", "o", "w", "n">>, <<"9", "8">>, Bob, Null,
                Null, 500, "converted"),
     FieldVisit(Bob, <<"7", "7">>, Bob, Null, Null, 0, "rejected")}

\* One record that no search term matches, then records that a term matches
\* in one field each: client name, worker name, client phone, client email,
\* in either case; empty and absent phone and email.
FilterPool ==
    {FieldVisit(Bob, Null, <<"b", "o">>, Null, Null, 0, "follow_up"),
     FieldVisit(Bob, Null, <<"b", "A">>, Null, Null, 500, "converted"),
     FieldVisit(<<"a", "b">>, Null, <<"b", "o">>, <<>>, <<>>, 0, "follow_up"),
     FieldVisit(Bob, Null, <<"b", "o">>, <<"9", "A">>, Null, 0, "rejected"),
     FieldVisit(Bob, Null, <<"b", "o">>, <<"9", "a">>, Null, 500, "converted"),
     FieldVisit(Bob, Null, <<"b", "o">>, Null, <<"A", "@", "b">>, 0,
                "follow_up"),
     FieldVisit(Bob, Null, <<"b", "o">>, Null, <<"a", "@", "b">>, 0,
                "rejected"),
     FieldVisit(Bob, Null, <<"b", "o">>, <<"9", "8">>, Null, 0, "follow_up")}

\* --------------------------------------------------------------- visit form
\* an optional value (T | null | undefined) that holds a record
None == <<>>
Some(v) == <<v>>

Digits == {"0", "1", "2", "3", "4", "5", "6", "7", "8", "9"}

DigitValue(c) ==
    CASE c = "0" -> 0 [] c = "1" -> 1 [] c = "2" -> 2 [] c = "3" -> 3
      [] c = "4" -> 4 [] c = "5" -> 5 [] c = "6" -> 6 [] c = "7" -> 7
      [] c = "8" -> 8 [] c = "9" -> 9

\* a phone number is 10 characters long
PhoneLength == 10

\* value.replace(/\D/g, '').slice(0, 10)
IsDigit(c) == c \in Digits
digitsOnly(value) ==
    LET d == SelectSeq(value, IsDigit)
    IN  SubSeq(d, 1, IF Len(d) < PhoneLength THEN Len(d) ELSE PhoneLength)

\* parseFloat(value) || 0 on the text of the budget input: the value of the
\* longest prefix of digits, 0 when there is none
RECURSIVE parsePrefix(_, _)
parsePrefix(value, acc) ==
    IF value = <<>> \/ Head(value) \notin Digits THEN acc
    ELSE parsePrefix(Tail(value), acc * 10 + DigitValue(Head(value)))

parseBudget(value) == parsePrefix(value, 0)

\* a timestamp is a pair <<date and minute, seconds>>;
\* new Date(t).toISOString().slice(0, 16) drops the seconds
toISOMinute(t) == <<t[1], "00">>

\* new Date(Date.now() + 86400000).toISOString().slice(0, 16)
Tomorrow == toISOMinute(<<"D2", "30">>)

\* a row of `visits`: the fields of FieldVisit the program reads or writes
VisitRow(id, v, fua, rr, photo) ==
    [id |-> id, worker_name |-> v.worker_name,
     worker_phone |-> v.worker_phone, client_name |-> v.client_name,
     client_phone |-> v.client_phone, client_email |-> v.client_email,
     budget |-> v.budget, status |-> v.status, follow_up_at |-> fua,
     rejection_reason |-> rr, photo_url |-> photo]

\* x || ''
OrEmpty(x) == IF Truthy(x) THEN x ELSE <<>>

\* useState initialiser of formData
InitialFormData(initialData) ==
    IF initialData = None
    THEN [worker_name |-> <<>>, worker_phone |-> <<>>, client_name |-> <<>>,
          client_phone |-> <<>>, client_email |-> <<>>, budget |-> 0,
          status |-> "follow_up", follow_up_at |-> Tomorrow,
          rejection_reason |-> <<>>]
    ELSE LET d == initialData[1]
         IN  [worker_name |-> OrEmpty(d.worker_name),
              worker_phone |-> OrEmpty(d.worker_phone),
              client_name |-> OrEmpty(d.client_name),
              client_phone |-> OrEmpty(d.client_phone),
              client_email |-> OrEmpty(d.client_email),
              budget |-> d.budget,
              status |-> d.status,
              follow_up_at |-> IF Truthy(d.follow_up_at)
                               THEN toISOMinute(d.follow_up_at)
                               ELSE Tomorrow,
              rejection_reason |-> OrEmpty(d.rejection_reason)]

\* handleInputChange for the input called `name` receiving the text `value`
handleInputChange(fd, name, value) ==
    IF name \in {"worker_phone", "client_phone"}
    THEN [fd EXCEPT ![name] = digitsOnly(value)]
    ELSE [fd EXCEPT ![name] = IF name = "budget" THEN parseBudget(value)
                               ELSE value]

\* the user's edits before pressing submit, applied in order: text typed
\* into an input, or a file chosen for the photo (setPhoto)
RECURSIVE Typed(_, _)
Typed(f, edits) ==
    IF edits = <<>> THEN f
    ELSE Typed(IF Head(edits)[1] = "photo"
               THEN [f EXCEPT !.photo = TRUE]
               ELSE [f EXCEPT !.formData =
                        handleInputChange(@, Head(edits)[1], Head(edits)[2])],
               Tail(edits))

\* validatePhones: the set of fields that get an error
validatePhones(fd) ==
    {name \in {"worker_phone", "client_phone"} :
        fd[name] # <<>> /\ Len(fd[name]) # PhoneLength}

visitData_KeepBudget(fd, photo_url) ==
    [worker_name |-> fd.worker_name, worker_phone |-> fd.worker_phone,
     client_name |-> fd.client_name, client_phone |-> fd.client_phone,
     client_email |-> fd.client_email,
     follow_up_at |-> IF fd.status = "follow_up" THEN fd.follow_up_at
                      ELSE Null,
     budget |-> fd.budget,
     status |-> fd.status,
     rejection_reason |-> IF fd.status = "rejected" THEN fd.rejection_reason
                          ELSE Null,
     photo_url |-> photo_url]

\* the fields handleSubmit sends to `visits`
visitData(fd, photo_url) ==
    [worker_name |-> fd.worker_name, worker_phone |-> fd.worker_phone,
     client_name |-> fd.client_name, client_phone |-> fd.client_phone,
     client_email |-> fd.client_email,
     follow_up_at |-> IF fd.status = "follow_up" THEN fd.follow_up_at
                      ELSE Null,
     budget |-> IF fd.status = "converted" THEN fd.budget ELSE 0,
     status |-> fd.status,
     rejection_reason |-> IF fd.status = "rejected" THEN fd.rejection_reason
                          ELSE Null,
     photo_url |-> photo_url]

\* insert([visitData]): the store gives the new row its id
insertVisit(rows, vd) ==
    <<[id |-> Len(rows) + 1] @@ vd>> \o rows

\* update(visitData).eq('id', id)
updateVisit(rows, id, vd) ==
    [i \in 1..Len(rows) |->
        IF rows[i].id = id THEN [id |-> id] @@ vd ELSE rows[i]]

ActivityEntry_Created(visit_id, action_type, fd) ==
    [visit_id |-> visit_id, action_type |-> "created",
     performed_by |-> fd.worker_name, new_value |-> fd.status,
     field_name |-> "status"]

\* the row handleSubmit appends to `visit_activities`
ActivityEntry(visit_id, action_type, fd) ==
    [visit_id |-> visit_id, action_type |-> action_type,
     performed_by |-> fd.worker_name, new_value |-> fd.status,
     field_name |-> "status"]

\* a VisitForm component
VisitForm(mounted, initialData) ==
    [mounted |-> mounted, initialData |-> initialData, loading |-> FALSE,
     msg |-> Null, phoneErrors |-> {}, photo |-> FALSE,
     formData |-> InitialFormData(initialData)]

\* no VisitForm is mounted
NoForm == VisitForm(FALSE, None)

\* unmounting: the handleSubmit calls that are running keep running, their
\* setState calls no longer have an effect
Unmounted(ss) == [k \in 1..Len(ss) |-> [ss[k] EXCEPT !.live = FALSE]]

\* ------------------------------------------------------------------ actions
RemoveAt(s, i) == SubSeq(s, 1, i - 1) \o SubSeq(s, i + 1, Len(s))

\* a fetchVisits request in flight: its issue number and, once the store has
\* run the query, the rows it returns
FetchRequest(n) == [id |-> n, served |-> FALSE, data |-> <<>>]

InitFormIdle ==
    /\ form = NoForm
    /\ subs = <<>>
    /\ submits = 0
    /\ timers = <<>>

\* the Login component as constructed
Login ==
    [portal |-> "choice", loading |-> FALSE, error |-> Null,
     identifier |-> <<>>, password |-> <<>>,
     pending |-> <<>>,      \* the handleAuth call that is running, if any
     lookup |-> <<>>,       \* fetchError and data of the last lookup
     onLogin |-> <<>>]      \* the calls of props.onLogin so far

\* the Register component as constructed
Register ==
    [loading |-> FALSE, selectedRole |-> "worker", error |-> Null,
     formData |-> [name |-> <<>>, email |-> <<>>, mobile |-> <<>>,
                   password |-> <<>>, confirmPassword |-> <<>>],
     pc |-> "idle",         \* where the handleRegister call that is running is
     onSuccess |-> <<>>]    \* the calls of props.onSuccess so far

\* the browsers that show a Register component
Clients == {1, 2}

InitAuthOn(stores) ==
    /\ users \in stores
    /\ login = Login
    /\ reg = [c \in Clients |-> Register]

\* nobody is logging in or registering
InitAuthIdle == InitAuthOn({<<>>})

\* The dashboard body is rendered unless (loading && visits.length === 0).
Rendered == ~(loading /\ Len(visits) = 0)

\* a fetchActivities request in flight: the visit asked for and, once the
\* store has run the query, the entries it returns
ActivityRequest(visitId) == [visitId |-> visitId, served |-> FALSE, data |-> <<>>]

\* no visit and no worker is selected
InitDetail ==
    /\ selectedVisit = None
    /\ activities = <<>>
    /\ loadingActivities = FALSE
    /\ actflight = <<>>
    /\ selectedWorker = Null

\* The modal of the selected visit covers the page (fixed inset-0): what is
\* under it takes no click.
Clickable == Rendered /\ selectedVisit = None

InitDashboard(stores) ==
    /\ db \in stores
    /\ inflight = <<FetchRequest(1)>>    \* useEffect(() => fetchVisits())
    /\ issued = 1
    /\ visits = <<>>
    /\ loading = TRUE
    /\ error = Null
    /\ view = "cards"
    /\ statusFilter = "all"
    /\ search = <<>>
    /\ stats = Stats(<<>>)
    /\ workerStats = WorkerStats(<<>>)
    /\ filteredVisits = FilteredVisits(<<>>, "all", <<>>)
    /\ editingVisit = None
    /\ InitFormIdle
    /\ InitDetail

InitDash(pool) ==
    /\ InitDashboard(SeqsUpTo(pool, MaxVisits))
    /\ activityLog = <<>>
    /\ InitAuthIdle

\* the remote store runs the query of a pending fetchVisits request
ServeVisits(i) ==
    /\ i \in 1..Len(inflight)
    /\ ~inflight[i].served
    /\ inflight' = [inflight EXCEPT ![i] = [@ EXCEPT !.served = TRUE,
                                                     !.data = db]]
    /\ UNCHANGED <<db, activityLog, issued, visits, loading, error, view,
                   statusFilter, search, stats, workerStats, filteredVisits,
                   editingVisit, formVars, authVars, detailVars>>

FetchVisitsOk_LatestOnly(i) ==
    /\ i \in 1..Len(inflight)
    /\ inflight[i].served
    /\ inflight' = RemoveAt(inflight, i)
    /\ SetState(IF inflight[i].id = issued THEN inflight[i].data ELSE visits,
                statusFilter, search)
    /\ loading' = FALSE
    /\ UNCHANGED <<db, activityLog, issued, error, view, editingVisit,
                   formVars, authVars, detailVars>>

\* fetchVisits: a response arrives with the rows; requests are not cancelled
\* and responses arrive in any order
FetchVisitsOk(i) ==
    /\ i \in 1..Len(inflight)
    /\ inflight[i].served
    /\ inflight' = RemoveAt(inflight, i)
    /\ SetState(inflight[i].data, statusFilter, search)
    /\ loading' = FALSE
    /\ UNCHANGED <<db, activityLog, issued, error, view, editingVisit,
                   formVars, authVars, detailVars>>

\* fetchVisits: the request fails; the catch block sets the message
FetchVisitsFail(i) ==
    /\ i \in 1..Len(inflight)
    /\ inflight' = RemoveAt(inflight, i)
    /\ error' = FetchFailure
    /\ loading' = FALSE
    /\ SetState(visits, statusFilter, search)
    /\ UNCHANGED <<db, activityLog, issued, view, editingVisit, formVars,
                   authVars, detailVars>>

\* a status card of the cards view
handleOpenCard(status) ==
    /\ Clickable
    /\ view = "cards"
    /\ SetState(visits, status, search)
    /\ view' = "table"
    /\ UNCHANGED <<db, activityLog, inflight, issued, loading, error,
                   editingVisit, formVars, authVars, detailVars>>

\* the Data button of the command bar: handleOpenCard('all'); setView('table')
DataClick ==
    /\ Clickable
    /\ SetState(visits, "all", search)
    /\ view' = "table"
    /\ form' = NoForm
    /\ subs' = Unmounted(subs)
    /\ UNCHANGED <<db, activityLog, inflight, issued, loading, error,
                   editingVisit, submits, timers, authVars, detailVars>>

\* the search box of the table view
SetSearch(term) ==
    /\ Clickable
    /\ view = "table"
    /\ SetState(visits, statusFilter, term)
    /\ UNCHANGED <<db, activityLog, inflight, issued, loading, error, view,
                   editingVisit, formVars, authVars, detailVars>>

\* the Dashboard button of the table view
TableBack ==
    /\ Clickable
    /\ view = "table"
    /\ view' = "cards"
    /\ SetState(visits, statusFilter, search)
    /\ UNCHANGED <<db, activityLog, inflight, issued, loading, error,
                   editingVisit, formVars, authVars, detailVars>>

NextDash ==
    \/ \E i \in 1..Len(inflight) : ServeVisits(i)
    \/ \E i \in 1..Len(inflight) : FetchVisitsOk(i)
    \/ \E i \in 1..Len(inflight) : FetchVisitsFail(i)
    \/ \E status \in VisitStatus : handleOpenCard(status)
    \/ DataClick
    \/ \E term \in SearchTerms : SetSearch(term)
    \/ TableBack

InitTally == InitDash(TallyPool)

SpecTally == InitTally /\ [][NextDash]_vars

InitRollup == InitDash(RollupPool)

SpecRollup == InitRollup /\ [][NextDash]_vars

InitFilter == InitDash(FilterPool)

SpecFilter == InitFilter /\ [][NextDash]_vars

\* ------------------------------------------------------- visit form actions
MaxSubmits == 1
MaxRefetches == 2

MsgSuccess == <<"success">>
MsgError == <<"error">>

Phone10 == <<"9", "8", "7", "6", "5", "4", "3", "2", "1", "0">>
Phone10Letters == <<"9", "8", "7", "6", "5", "a", "b", "c", "d", "e">>
TypedPhone == <<"9", "8", "7", "6", "5", "-", "4", "3", "2", "1", "0", "7">>
Why == <<"n", "o">>
Url == <<"u", "r", "l">>

TypedNames == <<(<<"worker_name", Jane>>), (<<"client_name", Bob>>)>>
TypedMoney == <<(<<"budget", <<"5", "0", "0">>>>),
                (<<"rejection_reason", Why>>)>>

\* what the user types into the form before a submit
EditScripts ==
    << <<>>,
       TypedNames \o <<(<<"photo", "file">>)>>,
       TypedNames \o <<(<<"worker_phone", TypedPhone>>),
                       (<<"status", "converted">>)>> \o TypedMoney,
       TypedNames \o <<(<<"status", "rejected">>)>> \o TypedMoney,
       TypedNames \o <<(<<"worker_phone", <<"9", "8">>>>)>>,
       <<(<<"status", "converted">>)>>,
       TypedNames >>

\* the scripts of a session that creates visits and edits them unchanged
FewScripts == {1, 7}
AllScripts == 1..Len(EditScripts)

\* rows of `visits` as other clients of the store may have written them
StaleRow ==
    VisitRow(1, FieldVisit(Jane, Phone10, Bob, <<>>, <<>>, 500, "follow_up"),
             <<"D1", "30">>, Why, Null)
LettersRow ==
    VisitRow(1, FieldVisit(Jane, Phone10Letters, Bob, <<>>, <<>>, 0,
                           "follow_up"),
             <<"D1", "30">>, Null, Null)

FormStores == {<<>>, <<StaleRow>>, <<LettersRow>>}

FormShown == form.mounted /\ Rendered

\* header button "Add Visit": setView('add_new')
AddVisitClick ==
    /\ Clickable
    /\ view # "add_new"
    /\ view' = "add_new"
    /\ form' = VisitForm(TRUE, None)
    /\ subs' = Unmounted(subs)
    /\ UNCHANGED <<db, activityLog, inflight, issued, visits, loading, error,
                   statusFilter, search, stats, workerStats, filteredVisits,
                   editingVisit, submits, timers, authVars, detailVars>>

\* handleEditClick on a row of the table
handleEditClick(i) ==
    /\ Clickable
    /\ view = "table"
    /\ i \in 1..Len(filteredVisits)
    /\ editingVisit' = Some(filteredVisits[i])
    /\ view' = "edit_visit"
    /\ form' = VisitForm(TRUE, Some(filteredVisits[i]))
    /\ subs' = Unmounted(subs)
    /\ UNCHANGED <<db, activityLog, inflight, issued, visits, loading, error,
                   statusFilter, search, stats, workerStats, filteredVisits,
                   submits, timers, authVars, detailVars>>

\* "Back" of the add_new view: setView('cards')
BackClick ==
    /\ Clickable
    /\ view = "add_new"
    /\ view' = "cards"
    /\ form' = NoForm
    /\ subs' = Unmounted(subs)
    /\ UNCHANGED <<db, activityLog, inflight, issued, visits, loading, error,
                   statusFilter, search, stats, workerStats, filteredVisits,
                   editingVisit, submits, timers, authVars, detailVars>>

\* "Cancel Edit" of the edit_visit view and the form's onCancel
CancelEdit ==
    /\ Clickable
    /\ view = "edit_visit"
    /\ view' = "table"
    /\ form' = NoForm
    /\ subs' = Unmounted(subs)
    /\ UNCHANGED <<db, activityLog, inflight, issued, visits, loading, error,
                   statusFilter, search, stats, workerStats, filteredVisits,
                   editingVisit, submits, timers, authVars, detailVars>>

\* handleSubmit up to its first await, after the user typed EditScripts[n];
\* `max` bounds the number of submissions that pass validatePhones
handleSubmit(n, max) ==
    LET typed == Typed(form, EditScripts[n])
        fd == typed.formData
        errors == validatePhones(fd)
        initial == form.initialData
        photo_url == IF initial # None /\ Truthy(initial[1].photo_url)
                     THEN initial[1].photo_url ELSE Null
    IN  /\ FormShown
        /\ ~form.loading                       \* disabled={loading}
        /\ fd.worker_name # <<>>               \* <input required>
        /\ fd.client_name # <<>>
        /\ submits < max
        /\ IF errors # {}
           THEN /\ form' = [typed EXCEPT !.msg = Null,
                                         !.phoneErrors = errors]
                /\ UNCHANGED <<subs, submits, detailVars>>
           ELSE /\ form' = [typed EXCEPT !.msg = Null, !.phoneErrors = {},
                                         !.loading = TRUE]
                /\ subs' = Append(subs,
                       [live |-> TRUE,
                        update |-> initial # None,
                        visit_id |-> IF initial # None THEN initial[1].id
                                     ELSE 0,
                        formData |-> fd,
                        photo_url |-> photo_url,
                        pc |-> IF typed.photo THEN "upload" ELSE "write",
                        onSuccess |-> IF initial # None THEN "table"
                                      ELSE "cards"])
                /\ submits' = submits + 1
        /\ UNCHANGED <<db, activityLog, dashVars, timers, authVars,
                       detailVars>>

\* the upload ends; a failure is thrown: `if (uploadError) throw uploadError`
UploadEnd_Throws(k, ok) ==
    /\ k \in 1..Len(subs)
    /\ subs[k].pc = "upload"
    /\ IF ok
       THEN /\ subs' = [subs EXCEPT ![k] =
                           [@ EXCEPT !.pc = "write", !.photo_url = Url]]
            /\ UNCHANGED form
       ELSE /\ form' = IF subs[k].live
                       THEN [form EXCEPT !.msg = MsgError,
                                         !.loading = FALSE]
                       ELSE form
            /\ subs' = RemoveAt(subs, k)
    /\ UNCHANGED timers
    /\ UNCHANGED <<db, activityLog, dashVars, submits, authVars, detailVars>>

\* the photo upload ends: publicUrl on success, the old photo_url on failure
UploadEnd(k, ok) ==
    /\ k \in 1..Len(subs)
    /\ subs[k].pc = "upload"
    /\ subs' = [subs EXCEPT ![k] =
                   [@ EXCEPT !.pc = "write",
                             !.photo_url = IF ok THEN Url ELSE @]]
    /\ UNCHANGED <<db, activityLog, dashVars, form, submits, timers,
                   authVars, detailVars>>

\* the update or the insert of the visit succeeds
WriteOk(k) ==
    /\ k \in 1..Len(subs)
    /\ subs[k].pc = "write"
    /\ LET s == subs[k]
           vd == visitData(s.formData, s.photo_url)
       IN  IF s.update
           THEN /\ db' = updateVisit(db, s.visit_id, vd)
                /\ subs' = [subs EXCEPT ![k] = [@ EXCEPT !.pc = "append"]]
           ELSE /\ db' = insertVisit(db, vd)
                /\ subs' = [subs EXCEPT ![k] =
                               [@ EXCEPT !.pc = "append",
                                         !.visit_id = db'[1].id]]
    /\ UNCHANGED <<activityLog, dashVars, form, submits, timers, authVars,
                   detailVars>>

\* the catch block without the finally block
Caught_StaysLoading(k) ==
    /\ form' = IF subs[k].live
               THEN [form EXCEPT !.msg = MsgError]
               ELSE form
    /\ subs' = RemoveAt(subs, k)
    /\ UNCHANGED timers

\* the catch and finally blocks of a handleSubmit call
Caught(k) ==
    /\ form' = IF subs[k].live
               THEN [form EXCEPT !.msg = MsgError, !.loading = FALSE]
               ELSE form
    /\ subs' = RemoveAt(subs, k)
    /\ UNCHANGED timers

\* the update or the insert of the visit fails: `if (error) throw error`
WriteFail(k) ==
    /\ k \in 1..Len(subs)
    /\ subs[k].pc = "write"
    /\ Caught(k)
    /\ UNCHANGED <<db, activityLog, dashVars, submits, authVars, detailVars>>

\* the rest of handleSubmit after the activity insert was awaited
Succeeded(k) ==
    /\ form' = IF subs[k].live
               THEN [form EXCEPT !.msg = MsgSuccess, !.loading = FALSE]
               ELSE form
    /\ timers' = Append(timers, subs[k].onSuccess)
    /\ subs' = RemoveAt(subs, k)

AppendEnd_Replaces(k, ok) ==
    /\ k \in 1..Len(subs)
    /\ subs[k].pc = "append"
    /\ activityLog' =
          IF ok
          THEN <<ActivityEntry(subs[k].visit_id,
                               IF subs[k].update THEN "updated"
                               ELSE "created",
                               subs[k].formData)>>
          ELSE activityLog
    /\ Succeeded(k)
    /\ UNCHANGED <<db, dashVars, submits, authVars, detailVars>>

AppendEnd_Throws(k, ok) ==
    /\ k \in 1..Len(subs)
    /\ subs[k].pc = "append"
    /\ IF ok
       THEN /\ activityLog' =
                 Append(activityLog,
                        ActivityEntry(subs[k].visit_id,
                                      IF subs[k].update THEN "updated"
                                      ELSE "created",
                                      subs[k].formData))
            /\ Succeeded(k)
       ELSE /\ activityLog' = activityLog
            /\ Caught(k)
    /\ UNCHANGED <<db, dashVars, submits, authVars, detailVars>>

\* the insert into `visit_activities` ends; its result is not looked at
AppendEnd(k, ok) ==
    /\ k \in 1..Len(subs)
    /\ subs[k].pc = "append"
    /\ activityLog' =
          IF ok
          THEN Append(activityLog,
                      ActivityEntry(subs[k].visit_id,
                                    IF subs[k].update THEN "updated"
                                    ELSE "created",
                                    subs[k].formData))
          ELSE activityLog
    /\ Succeeded(k)
    /\ UNCHANGED <<db, dashVars, submits, authVars, detailVars>>

\* fetchVisits up to its await
fetchVisits ==
    /\ loading' = TRUE
    /\ error' = Null
    /\ issued' = issued + 1
    /\ inflight' = Append(inflight, FetchRequest(issued + 1))

TimerFire_NoFetch ==
    /\ timers # <<>>
    /\ timers' = Tail(timers)
    /\ view' = Head(timers)
    /\ form' = NoForm
    /\ subs' = Unmounted(subs)
    /\ UNCHANGED <<db, activityLog, inflight, issued, loading, error, visits,
                   statusFilter, search, stats, workerStats, filteredVisits,
                   editingVisit, submits, authVars, detailVars>>

\* setTimeout(() => onSuccess && onSuccess(), 1500) fires:
\* () => { fetchVisits(); setView('cards' | 'table'); }
TimerFire ==
    /\ timers # <<>>
    /\ timers' = Tail(timers)
    /\ fetchVisits
    /\ view' = Head(timers)
    /\ form' = NoForm
    /\ subs' = Unmounted(subs)
    /\ UNCHANGED <<db, activityLog, visits, statusFilter, search, stats,
                   workerStats, filteredVisits, editingVisit, submits,
                   authVars, detailVars>>

FormNext(scripts, max) ==
    \/ \E i \in 1..Len(inflight) : ServeVisits(i)
    \/ \E i \in 1..Len(inflight) : FetchVisitsOk(i)
    \/ \E i \in 1..Len(inflight) : FetchVisitsFail(i)
    \/ DataClick
    \/ AddVisitClick
    \/ \E i \in 1..Len(filteredVisits) : handleEditClick(i)
    \/ BackClick
    \/ CancelEdit
    \/ \E n \in scripts : handleSubmit(n, max)
    \/ \E k \in 1..Len(subs) : WriteOk(k)
    \/ \E k \in 1..Len(subs) : WriteFail(k)
    \/ \E k \in 1..Len(subs), ok \in BOOLEAN : AppendEnd(k, ok)
    \/ TimerFire

InitFormOn(stores) ==
    /\ InitDashboard(stores)
    /\ activityLog = <<>>
    /\ InitAuthIdle

\* one submission with any of the scripts
NextForm ==
    \/ FormNext(AllScripts, MaxSubmits)
    \/ \E k \in 1..Len(subs), ok \in BOOLEAN : UploadEnd(k, ok)

InitForm == InitFormOn(FormStores)

SpecForm == InitForm /\ [][NextForm]_vars

\* several submissions with few scripts: several refetches are outstanding
NextRefetch == FormNext(FewScripts, MaxRefetches)

InitRefetch == InitFormOn({<<>>})

SpecRefetch == InitRefetch /\ [][NextRefetch]_vars

\* a timer that was set fires: the page stays open
SpecRefetchFair == SpecRefetch /\ WF_vars(TimerFire)

\* a response to a pending fetchVisits request arrives
AnswerVisits ==
    \E i \in 1..Len(inflight) : FetchVisitsFail(i) \/ FetchVisitsOk(i)

\* every request is answered, with rows or with an error, and a timer that
\* was set fires
SpecRefetchAnswered ==
    SpecRefetch /\ WF_vars(TimerFire) /\ WF_vars(AnswerVisits)

\* ------------------------------------------------------ login and register
MaxLogins == 1
MaxUsers == 2

ErrInvalid == <<"Invalid credentials or account not found.">>
ErrDeniedWorker == <<"Access Denied: This account is not a Field Worker.">>
ErrDeniedAdmin == <<"Access Denied: Administrative privileges required.">>
ErrSuspended == <<"Account Suspended. Please contact your administrator.">>
ErrPassword == <<"Incorrect password. Please try again.">>
ErrExists == <<"An account already exists with this email or mobile number.">>
ErrInsert == <<"insertError">>

\* .or(`email.eq.${id}`) / .or(`mobile.eq.${id}`): the rows that match, in
\* the order of the table
Matching(rows, isEmail, cleanId) ==
    SelectSeq(rows, LAMBDA u : IF isEmail THEN u.email = cleanId
                                           ELSE u.mobile = cleanId)

\* .or(`email.eq.${e},mobile.eq.${m}`) or .or(`mobile.eq.${m}`)
Existing(rows, cleanEmail, cleanMobile) ==
    SelectSeq(rows, LAMBDA u : \/ cleanEmail # <<>> /\ u.email = cleanEmail
                               \/ u.mobile = cleanMobile)

\* the query has no order: any of the matching rows can be the first
MovedFirst(rows, i) == <<rows[i]>> \o RemoveAt(rows, i)

authResult_NoRoleCheck(req, fetchError, data) ==
    IF fetchError \/ Len(data) = 0 THEN ErrInvalid
    ELSE LET user == data[1]
         IN  IF user.is_active = FALSE THEN ErrSuspended
             ELSE IF user.password_hash # req.password THEN ErrPassword
             ELSE Null

authResult_IgnoreSuspended(req, fetchError, data) ==
    IF fetchError \/ Len(data) = 0 THEN ErrInvalid
    ELSE LET user == data[1]
         IN  IF req.portal = "worker" /\ user.role # "worker"
             THEN ErrDeniedWorker
             ELSE IF req.portal = "admin" /\ user.role # "admin"
             THEN ErrDeniedAdmin
             ELSE IF user.password_hash # req.password THEN ErrPassword
             ELSE Null

\* handleAuth after the lookup: the message thrown, Null when none is
authResult(req, fetchError, data) ==
    IF fetchError \/ Len(data) = 0 THEN ErrInvalid
    ELSE LET user == data[1]
         IN  IF req.portal = "worker" /\ user.role # "worker"
             THEN ErrDeniedWorker
             ELSE IF req.portal = "admin" /\ user.role # "admin"
             THEN ErrDeniedAdmin
             ELSE IF user.is_active = FALSE THEN ErrSuspended
             ELSE IF user.password_hash # req.password THEN ErrPassword
             ELSE Null

\* the portal buttons of the choice screen
setPortal(p) ==
    /\ login.portal = "choice"
    /\ login' = [login EXCEPT !.portal = p]
    /\ UNCHANGED <<db, activityLog, dashVars, formVars, users, reg,
                   detailVars>>

\* the back button of the login form: setPortal('choice')
PortalBack ==
    /\ login.portal # "choice"
    /\ login' = [login EXCEPT !.portal = "choice"]
    /\ UNCHANGED <<db, activityLog, dashVars, formVars, users, reg,
                   detailVars>>

\* handleAuth up to its await, after the two inputs were typed; `max` bounds
\* the number of logins
handleAuth(identifier, password, max) ==
    LET cleanId == toLowerCase(trim(identifier))
    IN  /\ login.portal # "choice"
        /\ ~login.loading                      \* disabled={loading}
        /\ identifier # <<>>                   \* <input required>
        /\ password # <<>>
        /\ Len(login.onLogin) < max
        /\ login' = [login EXCEPT
                        !.identifier = identifier,
                        !.password = password,
                        !.loading = TRUE,
                        !.error = Null,
                        !.lookup = <<>>,
                        !.pending = <<[cleanId |-> cleanId,
                                       isEmail |-> includes(cleanId, <<"@">>),
                                       portal |-> login.portal,
                                       password |-> password]>>]
        /\ UNCHANGED <<db, activityLog, dashVars, formVars, users, reg,
                       detailVars>>

\* the rest of handleAuth: the lookup failed, or returned the matching rows
\* with the i-th of them first (no row when i is 0)
AuthEnd(fetchError, i) ==
    /\ login.pending # <<>>
    /\ LET req == login.pending[1]
           found == Matching(users, req.isEmail, req.cleanId)
       IN  /\ IF fetchError \/ found = <<>> THEN i = 0
              ELSE i \in 1..Len(found)
           /\ LET data == IF i = 0 THEN <<>> ELSE MovedFirst(found, i)
                  thrown == authResult(req, fetchError, data)
              IN  login' = [login EXCEPT
                      !.pending = <<>>,
                      !.lookup = <<[portal |-> req.portal,
                                    password |-> req.password,
                                    fetchError |-> fetchError,
                                    data |-> data]>>,
                      !.loading = FALSE,
                      !.error = thrown,
                      !.onLogin = IF thrown = Null
                                  THEN Append(@, <<data[1].role,
                                                   data[1].name>>)
                                  ELSE @]
    /\ UNCHANGED <<db, activityLog, dashVars, formVars, users, reg,
                   detailVars>>

\* /^\d{10}$/.test(mobile)
TenDigits(mobile) ==
    /\ Len(mobile) = PhoneLength
    /\ \A i \in 1..Len(mobile) : mobile[i] \in Digits

NameMin == 3
PasswordMin == 6

\* the validation memo of Register: the rules that fail
validation(fd, selectedRole) ==
    {e \in {"name", "mobile", "email", "password", "confirm"} :
        \/ e = "name" /\ Len(trim(fd.name)) < NameMin
        \/ e = "mobile" /\ selectedRole = "worker" /\ ~TenDigits(fd.mobile)
        \/ e = "email" /\ selectedRole = "admin"
                       /\ (fd.email = <<>> \/ ~includes(fd.email, <<"@">>))
        \/ e = "password" /\ Len(fd.password) < PasswordMin
        \/ e = "confirm" /\ fd.password # fd.confirmPassword}

\* the row handleRegister inserts
NewUser(fd, selectedRole) ==
    LET cleanEmail == toLowerCase(trim(fd.email))
    IN  [name |-> trim(fd.name), role |-> selectedRole,
         email |-> IF cleanEmail # <<>> THEN cleanEmail ELSE Null,
         mobile |-> trim(fd.mobile), password_hash |-> fd.password,
         is_active |-> TRUE]

Secret == <<"s", "e", "c", "r", "e", "t">>
MailTyped == <<" ", "A", "@", "x">>

RegisterForm(name, email, mobile, password, confirmPassword) ==
    [name |-> name, email |-> email, mobile |-> mobile,
     password |-> password, confirmPassword |-> confirmPassword]

\* what is typed into Register before a submit, with the role selected
RegInputs ==
    << <<"worker", RegisterForm(Jane, <<>>, Phone10, Secret, Secret)>>,
       <<"admin", RegisterForm(Bob, MailTyped, <<"1">>, Secret, Secret)>>,
       <<"worker", RegisterForm(<<"J", "o", " ">>, <<>>, Phone10, Secret,
                                Secret)>>,
       <<"worker", RegisterForm(Jane, <<>>, Phone10Letters, Secret, Secret)>>,
       <<"worker", RegisterForm(Jane, <<>>, Phone10, Secret, Why)>>,
       <<"worker", RegisterForm(Jane, <<>>, Phone10, Why, Why)>>,
       <<"admin", RegisterForm(Bob, <<>>, <<"1">>, Secret, Secret)>>,
       <<"admin", RegisterForm(Bob, <<"a", "x">>, <<"1">>, Secret, Secret)>> >>

\* what is typed into Login before a submit
LoginIds == {Phone10, MailTyped}
LoginPasswords == {Secret, Why}

\* handleRegister calls that are running
Registering == {c \in Clients : reg[c].pc # "idle"}

\* handleRegister up to its await, after RegInputs[n] was typed; `max` bounds
\* the number of accounts
handleRegister(c, n, max) ==
    LET role == RegInputs[n][1]
        fd == RegInputs[n][2]
        typed == [reg[c] EXCEPT !.selectedRole = role, !.formData = fd,
                                !.error = Null]
    IN  /\ ~reg[c].loading                     \* disabled={loading || ...}
        /\ Len(users) + Cardinality(Registering) < max
        /\ reg' = IF validation(fd, role) # {}
                  THEN [reg EXCEPT ![c] = typed]
                  ELSE [reg EXCEPT ![c] = [typed EXCEPT !.loading = TRUE,
                                                        !.pc = "check"]]
        /\ UNCHANGED <<db, activityLog, dashVars, formVars, users, login,
                       detailVars>>

\* the duplicate check ends; only its data is looked at, so that a check
\* that failed counts as "no such account"
DuplicateCheckEnd(c, ok) ==
    /\ reg[c].pc = "check"
    /\ LET fd == reg[c].formData
           existing == IF ok
                       THEN Existing(users, toLowerCase(trim(fd.email)),
                                     trim(fd.mobile))
                       ELSE <<>>
       IN  reg' = IF Len(existing) > 0
                  THEN [reg EXCEPT ![c] = [@ EXCEPT !.error = ErrExists,
                                                    !.loading = FALSE,
                                                    !.pc = "idle"]]
                  ELSE [reg EXCEPT ![c] = [@ EXCEPT !.pc = "insert"]]
    /\ UNCHANGED <<db, activityLog, dashVars, formVars, users, login,
                   detailVars>>

\* the insert into `users` ends
InsertUserEnd(c, ok) ==
    /\ reg[c].pc = "insert"
    /\ LET row == NewUser(reg[c].formData, reg[c].selectedRole)
       IN  IF ok
           THEN /\ users' = Append(users, row)
                /\ reg' = [reg EXCEPT ![c] =
                              [@ EXCEPT !.loading = FALSE, !.pc = "idle",
                                        !.onSuccess =
                                            Append(@, <<row.role, row.name>>)]]
           ELSE /\ users' = users
                /\ reg' = [reg EXCEPT ![c] =
                              [@ EXCEPT !.loading = FALSE, !.pc = "idle",
                                        !.error = ErrInsert]]
    /\ UNCHANGED <<db, activityLog, dashVars, formVars, login, detailVars>>

\* an account the administrator of the store has suspended
Suspended ==
    [name |-> Jane, role |-> "worker", email |-> Null, mobile |-> Phone10,
     password_hash |-> Secret, is_active |-> FALSE]

AuthStores == {<<>>, <<Suspended>>}

AuthNext(clients, inputs, ids, pws, maxLogins, maxUsers) ==
    \/ \E p \in {"worker", "admin"} : setPortal(p)
    \/ PortalBack
    \/ \E id \in ids, pw \in pws : handleAuth(id, pw, maxLogins)
    \/ \E i \in 0..Len(users) : AuthEnd(FALSE, i)
    \/ AuthEnd(TRUE, 0)
    \/ \E c \in clients, n \in inputs : handleRegister(c, n, maxUsers)
    \/ \E c \in clients, ok \in BOOLEAN : DuplicateCheckEnd(c, ok)
    \/ \E c \in clients, ok \in BOOLEAN : InsertUserEnd(c, ok)

\* one browser registers with any of the inputs
NextAuth ==
    AuthNext({1}, 1..Len(RegInputs), LoginIds, LoginPasswords, MaxLogins,
             MaxUsers)

InitAuth ==
    /\ InitDashboard({<<>>})
    /\ activityLog = <<>>
    /\ InitAuthOn(AuthStores)

SpecAuth == InitAuth /\ [][NextAuth]_vars

\* two browsers register at the same time, as a worker by mobile number and
\* as an admin by email
NextRegister ==
    \/ \E c \in Clients, n \in {1, 2} : handleRegister(c, n, MaxUsers)
    \/ \E c \in Clients, ok \in BOOLEAN : DuplicateCheckEnd(c, ok)
    \/ \E c \in Clients, ok \in BOOLEAN : InsertUserEnd(c, ok)

SpecRegister == InitAuth /\ [][NextRegister]_vars

\* ------------------------------------------------------- the whole program
MaxOps == 1

\* submissions of the visit form, and logins and registrations, so far
FormOps == submits
LoginOps == Len(login.onLogin)
RegisterOps == Len(users) + Cardinality(Registering)

\* the dashboard with its form next to Login and Register: at most MaxOps
\* submissions, logins and registrations altogether
NextApp ==
    \/ FormNext({7}, MaxOps - LoginOps - RegisterOps)
    \/ AuthNext({1}, {1}, {Phone10}, {Secret},
                MaxOps - FormOps - RegisterOps, MaxOps - FormOps - LoginOps)

\* the trail of the stored row as an earlier session wrote it
OldTrail == <<ActivityEntry(1, "created", StaleRow)>>

InitApp ==
    /\ InitDashboard({<<StaleRow>>})
    /\ activityLog = OldTrail
    /\ InitAuthOn({<<>>})

SpecApp == InitApp /\ [][NextApp]_vars

\* ---------------------------------------------------------- worker profiles
MaxProfileVisits == 6

\* .slice(0, 5) of the recent assignments
RecentMax == 5

\* the Profiles button of the command bar:
\* setView('profiles'); setSelectedWorker(null)
ProfilesClick ==
    /\ Clickable
    /\ view' = "profiles"
    /\ selectedWorker' = Null
    /\ form' = NoForm
    /\ subs' = Unmounted(subs)
    /\ UNCHANGED <<db, activityLog, inflight, issued, visits, loading, error,
                   statusFilter, search, stats, workerStats, filteredVisits,
                   editingVisit, submits, timers, authVars, selectedVisit,
                   activities, loadingActivities, actflight>>

\* "View All Profiles" of the cards view: setView('profiles')
ViewAllProfiles ==
    /\ Clickable
    /\ view = "cards"
    /\ view' = "profiles"
    /\ UNCHANGED <<db, activityLog, inflight, issued, visits, loading, error,
                   statusFilter, search, stats, workerStats, filteredVisits,
                   editingVisit, formVars, authVars, detailVars>>

\* "Dashboard" of the profiles view: setView('cards')
ProfilesBack ==
    /\ Clickable
    /\ view = "profiles"
    /\ view' = "cards"
    /\ UNCHANGED <<db, activityLog, inflight, issued, visits, loading, error,
                   statusFilter, search, stats, workerStats, filteredVisits,
                   editingVisit, formVars, authVars, detailVars>>

\* the profile of one worker is shown instead of the list of workers
ProfileShown == view = "profiles" /\ Truthy(selectedWorker)

\* a card of the list of workers: setSelectedWorker(worker.name)
setSelectedWorker(e) ==
    /\ Clickable
    /\ view = "profiles"
    /\ ~Truthy(selectedWorker)
    /\ e \in 1..Len(workerStats)
    /\ selectedWorker' = workerStats[e].name
    /\ UNCHANGED <<db, activityLog, dashVars, formVars, authVars,
                   selectedVisit, activities, loadingActivities, actflight>>

\* "Back to All" of a profile: setSelectedWorker(null)
BackToAll ==
    /\ Clickable
    /\ ProfileShown
    /\ selectedWorker' = Null
    /\ UNCHANGED <<db, activityLog, dashVars, formVars, authVars,
                   selectedVisit, activities, loadingActivities, actflight>>

\* workerStats.find(w => w.name === selectedWorker): its position, 0 for none
findWorker(entries, worker) ==
    IF \E e \in 1..Len(entries) : entries[e].name = worker
    THEN CHOOSE e \in 1..Len(entries) :
            /\ entries[e].name = worker
            /\ \A d \in 1..(e - 1) : entries[d].name # worker
    ELSE 0

\* "Total Visits" of a profile: find(...)?.total || 0
ProfileTotal(entries, worker) ==
    IF findWorker(entries, worker) = 0 THEN 0
    ELSE entries[findWorker(entries, worker)].total

\* the records under "Recent Assignments" of a profile:
\* visits.filter(v => (v.worker_name || '').trim().toLowerCase()
\*                    === selectedWorker.toLowerCase()).slice(0, 5)
RecentAssignments(vs, worker) ==
    LET mine == SelectSeq(vs, LAMBDA v :
                    toLowerCase(trim(OrEmpty(v.worker_name)))
                        = toLowerCase(worker))
    IN  SubSeq(mine, 1, IF Len(mine) < RecentMax THEN Len(mine) ELSE RecentMax)

\* Workers that are one worker to the rollup, a record without a worker
\* name and a worker called "unknown".
ProfilePool ==
    {FieldVisit(Jane, Null, Bob, Null, Null, 0, "follow_up"),
     FieldVisit(<<" ", "j", "a", "n", "e", " ">>, Null, Bob, Null, Null, 500,
                "converted"),
     FieldVisit(<<>>, Null, Bob, Null, Null, 0, "follow_up"),
     FieldVisit(<<"u", "n", "k", "n", "o", "w", "n">>, Null, Bob, Null, Null,
                0, "rejected")}

NextProfile ==
    \/ \E i \in 1..Len(inflight) : ServeVisits(i)
    \/ \E i \in 1..Len(inflight) : FetchVisitsOk(i)
    \/ \E i \in 1..Len(inflight) : FetchVisitsFail(i)
    \/ ProfilesClick
    \/ ViewAllProfiles
    \/ ProfilesBack
    \/ \E e \in 1..Len(workerStats) : setSelectedWorker(e)
    \/ BackToAll

InitProfile ==
    /\ InitDashboard(SeqsUpTo(ProfilePool, MaxProfileVisits))
    /\ activityLog = <<>>
    /\ InitAuthIdle

SpecProfile == InitProfile /\ [][NextProfile]_vars

\* ------------------------------------------------- activity log of a visit
MaxActflight == 2

\* .eq('visit_id', visitId).order('created_at', { ascending: false }):
\* the entries of one visit, the newest first
activitiesOf(log, visitId) ==
    LET mine == SelectSeq(log, LAMBDA a : a.visit_id = visitId)
    IN  [i \in 1..Len(mine) |-> mine[Len(mine) + 1 - i]]

\* the records whose row or card takes a click: the rows of the table, the
\* recent assignments of a profile
ShownRows ==
    IF view = "table" THEN {filteredVisits[i] : i \in 1..Len(filteredVisits)}
    ELSE IF ProfileShown
         THEN LET recent == RecentAssignments(visits, selectedWorker)
              IN  {recent[i] : i \in 1..Len(recent)}
         ELSE {}

\* handleRowClick with fetchActivities up to its await; `max` bounds the
\* number of requests that are pending at a time
handleRowClick(visit, max) ==
    /\ Clickable
    /\ visit \in ShownRows
    /\ Len(actflight) < max
    /\ selectedVisit' = Some(visit)
    /\ IF visit.id # 0
       THEN /\ loadingActivities' = TRUE
            /\ actflight' = Append(actflight, ActivityRequest(visit.id))
       ELSE UNCHANGED <<loadingActivities, actflight>>
    /\ UNCHANGED <<db, activityLog, dashVars, formVars, authVars, activities,
                   selectedWorker>>

\* the remote store runs the query of a pending fetchActivities request
ServeActivities(i) ==
    /\ i \in 1..Len(actflight)
    /\ ~actflight[i].served
    /\ actflight' =
          [actflight EXCEPT ![i] =
              [@ EXCEPT !.served = TRUE,
                        !.data = activitiesOf(activityLog,
                                              actflight[i].visitId)]]
    /\ UNCHANGED <<db, activityLog, dashVars, formVars, authVars,
                   selectedVisit, activities, loadingActivities,
                   selectedWorker>>

\* fetchActivities: a response arrives with the entries
FetchActivitiesOk(i) ==
    /\ i \in 1..Len(actflight)
    /\ actflight[i].served
    /\ actflight' = RemoveAt(actflight, i)
    /\ activities' = actflight[i].data
    /\ loadingActivities' = FALSE
    /\ UNCHANGED <<db, activityLog, dashVars, formVars, authVars,
                   selectedVisit, selectedWorker>>

\* fetchActivities: the request fails; the catch block logs to the console
FetchActivitiesFail(i) ==
    /\ i \in 1..Len(actflight)
    /\ actflight' = RemoveAt(actflight, i)
    /\ loadingActivities' = FALSE
    /\ UNCHANGED <<db, activityLog, dashVars, formVars, authVars,
                   selectedVisit, activities, selectedWorker>>

\* the X button of the modal: setSelectedVisit(null)
CloseModal ==
    /\ Rendered
    /\ selectedVisit # None
    /\ selectedVisit' = None
    /\ UNCHANGED <<db, activityLog, dashVars, formVars, authVars, activities,
                   loadingActivities, actflight, selectedWorker>>

\* "Edit Record" reading selectedVisit after setSelectedVisit(null)
EditRecord_AfterClear ==
    /\ Rendered
    /\ selectedVisit # None
    /\ selectedVisit' = None
    /\ editingVisit' = None
    /\ view' = "edit_visit"
    /\ form' = NoForm
    /\ subs' = Unmounted(subs)
    /\ UNCHANGED <<db, activityLog, inflight, issued, visits, loading, error,
                   statusFilter, search, stats, workerStats, filteredVisits,
                   submits, timers, authVars, activities, loadingActivities,
                   actflight, selectedWorker>>

\* "Edit Record" of the modal:
\* setSelectedVisit(null); handleEditClick(e, selectedVisit)
EditRecord ==
    /\ Rendered
    /\ selectedVisit # None
    /\ selectedVisit' = None
    /\ editingVisit' = selectedVisit
    /\ view' = "edit_visit"
    /\ form' = VisitForm(TRUE, selectedVisit)
    /\ subs' = Unmounted(subs)
    /\ UNCHANGED <<db, activityLog, inflight, issued, visits, loading, error,
                   statusFilter, search, stats, workerStats, filteredVisits,
                   submits, timers, authVars, activities, loadingActivities,
                   actflight, selectedWorker>>

\* two visits of two workers and what was logged for them
SecondRow ==
    VisitRow(2, FieldVisit(Bob, Phone10, Bob, <<>>, <<>>, 500, "converted"),
             Null, Null, Null)

Trail ==
    <<ActivityEntry(1, "created", StaleRow),
      ActivityEntry(2, "created", SecondRow),
      ActivityEntry(1, "updated", StaleRow)>>

NextTrail ==
    \/ \E i \in 1..Len(inflight) : ServeVisits(i)
    \/ \E i \in 1..Len(inflight) : FetchVisitsOk(i)
    \/ \E i \in 1..Len(inflight) : FetchVisitsFail(i)
    \/ DataClick
    \/ ProfilesClick
    \/ \E e \in 1..Len(workerStats) : setSelectedWorker(e)
    \/ \E visit \in ShownRows : handleRowClick(visit, MaxActflight)
    \/ \E i \in 1..Len(actflight) : ServeActivities(i)
    \/ \E i \in 1..Len(actflight) : FetchActivitiesOk(i)
    \/ \E i \in 1..Len(actflight) : FetchActivitiesFail(i)
    \/ CloseModal
    \/ EditRecord
    \/ CancelEdit

InitTrail ==
    /\ InitDashboard({<<SecondRow, StaleRow>>})
    /\ activityLog = Trail
    /\ InitAuthIdle

SpecTrail == InitTrail /\ [][NextTrail]_vars

\* -------------------------------------------------------- view navigation
\* every control of the dashboard that calls setView, with the steps that
\* enable it
NextViews ==
    \/ \E i \in 1..Len(inflight) : ServeVisits(i)
    \/ \E i \in 1..Len(inflight) : FetchVisitsOk(i)
    \/ \E i \in 1..Len(inflight) : FetchVisitsFail(i)
    \/ \E status \in VisitStatus : handleOpenCard(status)
    \/ DataClick
    \/ \E term \in {<<>>, <<"a">>} : SetSearch(term)
    \/ TableBack
    \/ AddVisitClick
    \/ \E i \in 1..Len(filteredVisits) : handleEditClick(i)
    \/ BackClick
    \/ CancelEdit
    \/ handleSubmit(7, MaxSubmits)
    \/ \E k \in 1..Len(subs) : WriteOk(k)
    \/ \E k \in 1..Len(subs) : WriteFail(k)
    \/ \E k \in 1..Len(subs) : AppendEnd(k, TRUE)
    \/ TimerFire
    \/ ProfilesClick
    \/ ViewAllProfiles
    \/ ProfilesBack
    \/ \E visit \in ShownRows : handleRowClick(visit, 1)
    \/ \E i \in 1..Len(actflight) : FetchActivitiesFail(i)
    \/ CloseModal
    \/ EditRecord

InitViews == InitFormOn({<<StaleRow>>})

SpecViews == InitViews /\ [][NextViews]_vars

\* --------------------------------------------------------- photo uploads
\* a photo reference written by an earlier submission
OldUrl == <<"o", "l", "d">>

\* stored visits with a photo, with an empty photo reference and without
PhotoRow ==
    VisitRow(1, FieldVisit(Jane, Phone10, Bob, <<>>, <<>>, 0, "follow_up"),
             <<"D1", "30">>, Null, OldUrl)
BlankPhotoRow ==
    VisitRow(1, FieldVisit(Jane, Phone10, Bob, <<>>, <<>>, 0, "follow_up"),
             <<"D1", "30">>, Null, <<>>)

PhotoStores == {<<>>, <<PhotoRow>>, <<BlankPhotoRow>>, <<StaleRow>>}

\* submissions with a photo picked, against a bucket that refuses uploads
NextPhoto ==
    \/ FormNext({2}, MaxSubmits)
    \/ \E k \in 1..Len(subs) : UploadEnd(k, FALSE)

InitPhoto == InitFormOn(PhotoStores)

SpecPhoto == InitPhoto /\ [][NextPhoto]_vars

\* ------------------------------------------------------------------ claims
\* the indices of a list whose record satisfies a predicate
Indices(list, P(_)) == {i \in 1..Len(list) : P(list[i])}

RECURSIVE SumBudget(_, _)
SumBudget(list, I) ==
    IF I = {} THEN 0
    ELSE LET i == CHOOSE j \in I : TRUE
         IN  list[i].budget + SumBudget(list, I \ {i})

IsConverted(v) == v.status = "converted"

\* C1: the status tally of the dashboard satisfies
\* follow_up + converted + rejected = total, total being the number of
\* records of the list.
C1_TallySumsToTotal ==
    /\ stats.follow_up + stats.converted + stats.rejected = stats.total
    /\ stats.total = Len(visits)

\* The scenario of the spec: [converted 500, follow_up 0, rejected 0].
C1_Witness ==
    /\ visits = <<FieldVisit(Jane, Null, Bob, Null, Null, 500, "converted"),
                  FieldVisit(Jane, Null, Bob, Null, Null, 0, "follow_up"),
                  FieldVisit(Jane, Null, Bob, Null, Null, 0, "rejected")>>
    /\ stats = [follow_up |-> 1, converted |-> 1, rejected |-> 1,
                total_revenue |-> 500, total |-> 3]

\* C2: the revenue total is the sum of budget over the converted records,
\* and changing the budget of a follow_up or rejected record leaves it
\* unchanged.
C2_RevenueOfConvertedOnly ==
    /\ stats.total_revenue = SumBudget(visits, Indices(visits, IsConverted))
    /\ \A i \in 1..Len(visits) : \A b \in Budgets \cup {700} :
          visits[i].status # "converted" =>
             Stats([visits EXCEPT ![i].budget = b]).total_revenue
                = stats.total_revenue

\* A list with a converted record and a non-converted record that carries a
\* budget: the revenue counts the first only.
C2_Witness ==
    /\ \E i, j \in 1..Len(visits) :
          /\ visits[i].status = "converted" /\ visits[i].budget = 500
          /\ visits[j].status # "converted" /\ visits[j].budget = 500
    /\ Len(visits) = 3
    /\ stats.total_revenue = 500

\* ---- worker rollup
Min(S) == CHOOSE x \in S : \A y \in S : x <= y

\* trim and lower-case of the worker name as stored in the record
NormName(v) == toLowerCase(trim(v.worker_name))

\* the records of the list that the rollup puts under the key of entry e
GroupOf(e) ==
    {i \in 1..Len(visits) : normalizedKeyOf(visits[i]) = toLowerCase(e.name)}

PhoneIndices(G) == {i \in G : Truthy(visits[i].worker_phone)}

MissingName == {i \in 1..Len(visits) : ~Truthy(visits[i].worker_name)}

RECURSIVE SumTotal(_)
SumTotal(entries) ==
    IF entries = <<>> THEN 0 ELSE Head(entries).total + SumTotal(Tail(entries))

JaneSpaced == <<" ", "j", "a", "n", "e", " ">>
JaneUpper  == <<"J", "A", "N", "E">>

\* C3: records whose worker names differ only in case or in leading and
\* trailing spaces produce exactly one rollup entry; its display name is the
\* trimmed name of the first such record ("Unknown" when that record has no
\* name) and its total is the number of those records.
C3_NamesCollapse ==
    \A i \in 1..Len(visits) :
        LET C     == {j \in 1..Len(visits) :
                         NormName(visits[j]) = NormName(visits[i])}
            first == visits[Min(C)]
            label == IF Truthy(first.worker_name)
                     THEN trim(first.worker_name) ELSE Unknown
        IN  Cardinality({e \in 1..Len(workerStats) :
                            /\ workerStats[e].name = label
                            /\ workerStats[e].total = Cardinality(C)}) = 1

\* The scenario of the spec: "Jane", " jane ", "JANE" give one entry "Jane"
\* with total 3.
C3_Scenario ==
    /\ Len(visits) = 3
    /\ visits[1].worker_name = Jane
    /\ visits[2].worker_name = JaneSpaced
    /\ visits[3].worker_name = JaneUpper
    /\ Len(workerStats) = 1
    /\ workerStats[1].name = Jane
    /\ workerStats[1].total = 3

\* C8: the phone of a rollup entry is the first non-empty worker_phone of
\* its group in list order, it is absent only when no record of the group
\* has one, and a phone retained for a prefix of the list is the phone
\* retained for the whole list.
C8_FirstNonEmptyPhone ==
    /\ \A e \in 1..Len(workerStats) :
          LET P == PhoneIndices(GroupOf(workerStats[e]))
          IN  IF P = {} THEN ~Truthy(workerStats[e].phone)
              ELSE workerStats[e].phone = visits[Min(P)].worker_phone
    /\ \A n \in 0..Len(visits) :
          LET part == WorkerStats(SubSeq(visits, 1, n))
          IN  \A e \in 1..Len(part) :
                 Truthy(part[e].phone) =>
                    /\ e <= Len(workerStats)
                    /\ workerStats[e].name = part[e].name
                    /\ workerStats[e].phone = part[e].phone

\* A group whose first record has no phone and whose later records carry
\* two different phones: the earlier of the two is kept.
C8_Witness ==
    /\ Len(visits) = 3
    /\ visits[1].worker_name = Jane /\ visits[1].worker_phone = <<>>
    /\ visits[2].worker_name = JaneSpaced
    /\ visits[2].worker_phone = <<"9", "8">>
    /\ visits[3].worker_name = JaneUpper
    /\ visits[3].worker_phone = <<"7", "7">>
    /\ Len(workerStats) = 1
    /\ workerStats[1].phone = <<"9", "8">>

\* C9 as stated: every record with a missing worker name is counted in a
\* single group whose display name is the literal "Unknown", and no record
\* is left out of the rollup.
C9_UnknownLiteral ==
    /\ MissingName # {} =>
          Cardinality({e \in 1..Len(workerStats) :
                          /\ workerStats[e].name = Unknown
                          /\ workerStats[e].total >= Cardinality(MissingName)})
             = 1
    /\ SumTotal(workerStats) = Len(visits)

\* C9 amended: every record with a missing worker name is counted in one
\* group, the group of the key "unknown", together with the records named
\* "unknown" in any case and spacing; its display name is the literal
\* "Unknown" when its first record has no name, and that record's trimmed
\* name otherwise; no record is left out of the rollup.
C9_UnknownGroup ==
    /\ MissingName # {} =>
          LET K == {i \in 1..Len(visits) :
                       normalizedKeyOf(visits[i]) = toLowerCase(Unknown)}
              E == {e \in 1..Len(workerStats) :
                       toLowerCase(workerStats[e].name) = toLowerCase(Unknown)}
          IN  /\ MissingName \subseteq K
              /\ Cardinality(E) = 1
              /\ \A e \in E :
                    /\ workerStats[e].total = Cardinality(K)
                    /\ workerStats[e].name =
                          IF Min(K) \in MissingName THEN Unknown
                          ELSE trim(visits[Min(K)].worker_name)
    /\ SumTotal(workerStats) = Len(visits)

\* Two records without a name after a named one: one entry "Unknown" of
\* total 2.
C9_Witness ==
    /\ Len(visits) = 3
    /\ visits[1].worker_name = Jane
    /\ MissingName = {2, 3}
    /\ Len(workerStats) = 2
    /\ workerStats[2].name = Unknown
    /\ workerStats[2].total = 2

\* C10: the rollup lists its entries in the order in which each worker's
\* normalized key first appears in the record list.
C10_FirstAppearanceOrder ==
    /\ \A e \in 1..Len(workerStats) : GroupOf(workerStats[e]) # {}
    /\ \A e1, e2 \in 1..Len(workerStats) :
          e1 < e2 => Min(GroupOf(workerStats[e1])) < Min(GroupOf(workerStats[e2]))

\* Three workers; the first of them appears again at the end of the list.
C10_Witness ==
    /\ Len(visits) = 3
    /\ visits[1].worker_name = Bob
    /\ visits[2].worker_name = JaneSpaced
    /\ visits[3].worker_name = Bob
    /\ Len(workerStats) = 2
    /\ workerStats[1].name = Bob
    /\ workerStats[2].name = <<"j", "a", "n", "e">>

\* ---- filter
\* the records of a list at the indices of I, in list order
RECURSIVE Project(_, _)
Project(list, I) ==
    IF I = {} THEN <<>>
    ELSE LET m == CHOOSE x \in I : \A y \in I : y <= x
         IN  Append(Project(list, I \ {m}), list[m])

\* a field is present and contains the term, both compared in lower case
ContainsNoCase(field, term) ==
    /\ field # Null
    /\ includes(toLowerCase(field), toLowerCase(term))

StatusSelected(v) == statusFilter = "all" \/ v.status = statusFilter

SearchFound(v) ==
    \/ ContainsNoCase(v.client_name, search)
    \/ ContainsNoCase(v.worker_name, search)
    \/ ContainsNoCase(v.client_phone, search)
    \/ ContainsNoCase(v.client_email, search)

\* C4: the filter returns exactly the records that match the status
\* selector and, when the search term is non-empty, whose client name,
\* worker name, client phone or client email contains the term compared
\* case-insensitively.
C4_FilterExact ==
    filteredVisits =
        Project(visits, {i \in 1..Len(visits) :
                            /\ StatusSelected(visits[i])
                            /\ search # <<>> => SearchFound(visits[i])})

\* A search in the other case finds a record by its client name alone.
C4_Witness ==
    /\ search = <<"a">>
    /\ Len(visits) = 2
    /\ Len(filteredVisits) = 1
    /\ filteredVisits[1].client_name = <<"b", "A">>
    /\ filteredVisits[1].client_phone = Null

\* C5: applying the filter, with the same selector and term, to its own
\* output returns the identical list.
C5_FilterIdempotent ==
    FilteredVisits(filteredVisits, statusFilter, search) = filteredVisits

\* A filter by status and search that keeps some records and drops others.
C5_Witness ==
    /\ statusFilter = "converted"
    /\ search = <<"9">>
    /\ Len(visits) = 3
    /\ Len(filteredVisits) = 1

\* C6: with an empty search term and selector 'all' the output is the whole
\* list in its order; with an empty search term and a status it is exactly
\* the records of that status.
C6_EmptySearchMatchesAll ==
    search = <<>> =>
        /\ statusFilter = "all" => filteredVisits = visits
        /\ statusFilter # "all" =>
              filteredVisits =
                 Project(visits, {i \in 1..Len(visits) :
                                     visits[i].status = statusFilter})

\* The search box was emptied again while a status is selected.
C6_Witness ==
    /\ search = <<>>
    /\ statusFilter = "rejected"
    /\ Len(visits) = 3
    /\ Len(filteredVisits) = 2
    /\ visits[2].status # "rejected"

\* C7: tally, rollup and filter are functions of the record list and the
\* filter parameters alone, and computing them leaves the record list and
\* its records unchanged: the list changes only when a fetch completes.
C7_MemoOfInputs ==
    /\ stats = Stats(visits)
    /\ workerStats = WorkerStats(visits)
    /\ filteredVisits = FilteredVisits(visits, statusFilter, search)

C7_Pure ==
    /\ []C7_MemoOfInputs
    /\ [][inflight' = inflight => visits' = visits]_vars

\* The filter was recomputed to a proper part of the list, which is still
\* the list that was fetched.
C7_Witness ==
    /\ search = <<"a">>
    /\ statusFilter = "converted"
    /\ Len(visits) = 3
    /\ visits = db
    /\ Len(filteredVisits) = 1
    /\ Len(workerStats) = 2

\* ---- visit form
Rows(s) == {s[i] : i \in 1..Len(s)}

\* the rows of `visits` a step wrote: inserted, or updated to a new content
Written == Rows(db') \ Rows(db)

Normalised(r) ==
    /\ r.status # "converted" => r.budget = 0
    /\ r.status # "follow_up" => r.follow_up_at = Null
    /\ r.status # "rejected" => r.rejection_reason = Null

\* C11: every visit row a form submission writes, by insert or by update,
\* has budget 0 unless its status is converted, follow_up_at null unless its
\* status is follow_up, and rejection_reason null unless its status is
\* rejected.
C11_WritesNormalised == [][\A r \in Written : Normalised(r)]_vars

\* a rejected visit was typed with a budget of 500 and a reason, and the
\* row in the store has budget 0 and no follow-up time
C11_Witness ==
    /\ form.mounted
    /\ form.formData.status = "rejected"
    /\ form.formData.budget = 500
    /\ form.formData.follow_up_at # Null
    /\ \E i \in 1..Len(db) :
          /\ db[i].status = "rejected"
          /\ db[i].budget = 0
          /\ db[i].follow_up_at = Null
          /\ db[i].rejection_reason = Why

\* ---- login
\* a step in which the running handleAuth call returns
AuthReturned == login.pending # <<>> /\ login'.pending = <<>>

\* what that call's lookup gave
Looked == login'.lookup[1]

AccessDenied(portal) ==
    IF portal = "worker" THEN ErrDeniedWorker ELSE ErrDeniedAdmin

\* C12: when the account the lookup matched has a role other than the portal
\* the user chose, the attempt ends with the access-denied message of that
\* portal, onLogin is not called, and no row of users is written or changed.
C12_RoleMismatchDenied ==
    [][(/\ AuthReturned
        /\ ~Looked.fetchError
        /\ Len(Looked.data) > 0
        /\ Looked.data[1].role # Looked.portal)
       => /\ login'.error = AccessDenied(Looked.portal)
          /\ login'.onLogin = login.onLogin
          /\ users' = users]_vars

\* an admin account was matched through the worker portal with its own
\* password and the attempt was denied
C12_Witness ==
    /\ login.lookup # <<>>
    /\ login.lookup[1].portal = "worker"
    /\ Len(login.lookup[1].data) = 1
    /\ login.lookup[1].data[1].role = "admin"
    /\ login.lookup[1].data[1].password_hash = login.lookup[1].password
    /\ login.error = ErrDeniedWorker
    /\ login.onLogin = <<>>

\* C13: a login succeeds exactly when the lookup returns exactly one account
\* for the identifier and that account has the role of the portal, is
\* active, and stores the password that was typed.
C13_ExactlyOneAccount ==
    [][AuthReturned
       => ((login'.onLogin # login.onLogin)
           <=> /\ ~Looked.fetchError
               /\ Len(Looked.data) = 1
               /\ Looked.data[1].role = Looked.portal
               /\ Looked.data[1].is_active
               /\ Looked.data[1].password_hash = Looked.password)]_vars

\* what the code does: the first of the returned accounts decides
C13_FirstAccount ==
    [][AuthReturned
       => ((login'.onLogin # login.onLogin)
           <=> /\ ~Looked.fetchError
               /\ Len(Looked.data) >= 1
               /\ Looked.data[1].role = Looked.portal
               /\ Looked.data[1].is_active
               /\ Looked.data[1].password_hash = Looked.password)]_vars

\* two accounts share the mobile number that was typed and the user is
\* logged in as one of them
C13_Witness ==
    /\ login.lookup # <<>>
    /\ Len(login.lookup[1].data) = 2
    /\ login.onLogin # <<>>
    /\ \E u \in Rows(users) : u.mobile = Phone10 /\ ~u.is_active

\* C14: when no account matches, the matched account is inactive, or the
\* lookup fails, the attempt ends without a call of onLogin, with an error
\* message and with loading false; the component stays and, once an attempt
\* has ended in an error, another attempt can be submitted.
C14_Blocked ==
    [][(/\ AuthReturned
        /\ \/ Looked.fetchError
           \/ Len(Looked.data) = 0
           \/ ~Looked.data[1].is_active)
       => /\ login'.onLogin = login.onLogin
          /\ login'.error # Null
          /\ ~login'.loading]_vars

C14_CanRetry ==
    (login.lookup # <<>> /\ login.error # Null /\ login.portal # "choice")
        => ENABLED (\E id \in LoginIds, pw \in LoginPasswords :
                       handleAuth(id, pw, MaxLogins))

C14_LoginBlocked == C14_Blocked /\ []C14_CanRetry

\* the suspended account was matched with its own password: no login, the
\* message is shown and the form is ready again
C14_Witness ==
    /\ login.lookup # <<>>
    /\ Len(login.lookup[1].data) = 1
    /\ ~login.lookup[1].data[1].is_active
    /\ login.lookup[1].data[1].password_hash = login.lookup[1].password
    /\ login.error = ErrSuspended
    /\ ~login.loading
    /\ login.onLogin = <<>>

\* ---- activity trail of the visit form
\* the handleSubmit call k is waiting for its activity insert, having
\* written the row `id` in this step
AppendPending(k, id) ==
    /\ k \in 1..Len(subs)
    /\ Len(subs') = Len(subs)
    /\ subs[k].pc = "write"
    /\ subs'[k].pc = "append"
    /\ subs'[k].visit_id = id

\* the handleSubmit call k ends in this step
Returned(k) == k \in 1..Len(subs) /\ subs' = RemoveAt(subs, k)

\* C15: a successful write of a visit is followed by the append of one
\* activity entry for the row that was written: the handler that wrote the
\* row waits for that append next, and every entry that enters the trail is
\* one entry, of kind 'created' for an insert and 'updated' for an update,
\* performed by the submitted worker name, with the submitted status as new
\* value.
C15_WriteThenActivity ==
    [][/\ \A r \in Written : \E k \in 1..Len(subs) : AppendPending(k, r.id)
       /\ activityLog' # activityLog
            => \E k \in 1..Len(subs) :
                 /\ Returned(k)
                 /\ subs[k].pc = "append"
                 /\ \E i \in 1..Len(db) : db[i].id = subs[k].visit_id
                 /\ activityLog' = Append(activityLog,
                        [visit_id |-> subs[k].visit_id,
                         action_type |-> IF subs[k].update THEN "updated"
                                         ELSE "created",
                         performed_by |-> subs[k].formData.worker_name,
                         new_value |-> subs[k].formData.status,
                         field_name |-> "status"])]_vars

\* the follow_up row 1 was edited to converted and the trail holds
\* 'updated' / 'converted' for it
C15_Witness ==
    /\ editingVisit # None
    /\ editingVisit[1].id = 1
    /\ editingVisit[1].status = "follow_up"
    /\ \E i \in 1..Len(db) : db[i].id = 1 /\ db[i].status = "converted"
    /\ activityLog = <<[visit_id |-> 1, action_type |-> "updated",
                        performed_by |-> Jane, new_value |-> "converted",
                        field_name |-> "status"]>>

\* C16: when the activity append fails after a successful write, the visit
\* stays as written, the submission reports success like any other (success
\* message, the onSuccess timer), and the trail gets no entry.
C16_AppendFailureSilent ==
    [][\A k \in 1..Len(subs) :
          (Returned(k) /\ subs[k].pc = "append" /\ activityLog' = activityLog)
          => /\ db' = db
             /\ \E i \in 1..Len(db) : db[i].id = subs[k].visit_id
             /\ timers' = Append(timers, subs[k].onSuccess)
             /\ subs[k].live => form'.msg = MsgSuccess /\ ~form'.loading]_vars

\* a visit was created, the form shows success, and the trail is empty
C16_Witness ==
    /\ submits = 1
    /\ subs = <<>>
    /\ form.mounted
    /\ form.msg = MsgSuccess
    /\ form.initialData = None
    /\ \E i \in 1..Len(db) : db[i].worker_name = form.formData.worker_name
    /\ activityLog = <<>>

\* ---- validation
ExactlyTenDigits(p) ==
    /\ Len(p) = 10
    /\ \A i \in 1..Len(p) :
          p[i] \in {"0", "1", "2", "3", "4", "5", "6", "7", "8", "9"}

\* a phone of the visit form is acceptable when it is not supplied or is
\* exactly 10 digits
PhoneAcceptable(p) == p = <<>> \/ ExactlyTenDigits(p)

\* a handleSubmit call starts its remote requests in this step
SubmissionStarts == Len(subs') > Len(subs)

\* a handleRegister call of client c starts its remote requests in this step
RegistrationStarts(c) == reg[c].pc = "idle" /\ reg'[c].pc # "idle"

\* the registration data the claim rejects
RegistrationRejected(fd, role) ==
    \/ Len(fd.name) < 3
    \/ fd.password # fd.confirmPassword
    \/ Len(fd.password) < 6
    \/ role = "worker" /\ ~ExactlyTenDigits(fd.mobile)
    \/ role = "admin" /\ (fd.email = <<>> \/ ~includes(fd.email, <<"@">>))

\* the visit form sends nothing when a supplied phone is not 10 digits
C17_PhonesBlock ==
    [][SubmissionStarts
       => LET fd == subs'[Len(subs')].formData
          IN  /\ PhoneAcceptable(fd.worker_phone)
              /\ PhoneAcceptable(fd.client_phone)]_vars

\* what the code checks: a supplied phone of another length than 10 is
\* blocked, whatever its characters
C17_PhoneLengthBlocks ==
    [][SubmissionStarts
       => LET fd == subs'[Len(subs')].formData
          IN  /\ fd.worker_phone = <<>> \/ Len(fd.worker_phone) = 10
              /\ fd.client_phone = <<>> \/ Len(fd.client_phone) = 10]_vars

\* registration sends nothing, and users stays as it is, when the data is
\* rejected
C17_RegistrationBlocks ==
    [][/\ \A c \in Clients :
            RegistrationStarts(c)
              => ~RegistrationRejected(reg'[c].formData, reg'[c].selectedRole)
       /\ users' # users
            => \E c \in Clients :
                 /\ reg[c].pc = "insert"
                 /\ reg'[c].pc = "idle"
                 /\ ~RegistrationRejected(reg[c].formData,
                                          reg[c].selectedRole)]_vars

\* C17: validation blocks a submission before any remote request: the visit
\* form starts no request when a supplied worker or client phone is not
\* exactly 10 digits, and registration starts none when the name is shorter
\* than 3 characters, the passwords differ, the password is shorter than 6,
\* a worker's mobile is not exactly 10 digits, or an admin's email is
\* missing or has no '@'.
C17_ValidationBlocks == C17_PhonesBlock /\ C17_RegistrationBlocks

\* the edit form of a row whose phone is 10 characters with letters was
\* submitted and its update is under way or done
C17_Witness ==
    /\ editingVisit # None
    /\ editingVisit[1].worker_phone = Phone10Letters
    /\ form.formData.worker_phone = Phone10Letters
    /\ submits = 1
    /\ \E i \in 1..Len(db) :
          db[i].worker_phone = Phone10Letters /\ db[i].status = "converted"

\* a phone of 2 digits was submitted: the error is shown and nothing runs
C17_ShortPhoneBlocked ==
    /\ form.mounted
    /\ form.formData.worker_phone = <<"9", "8">>
    /\ form.phoneErrors = {"worker_phone"}
    /\ subs = <<>>
    /\ submits = 0

\* ---- the trail over all operations
IsPrefix(s, u) == Len(s) <= Len(u) /\ SubSeq(u, 1, Len(s)) = s

Answered(i) == i \in 1..Len(inflight) /\ inflight' = RemoveAt(inflight, i)

RequestIds(rs) == {rs[i].id : i \in 1..Len(rs)}

Succeeds(k) == Returned(k) /\ subs[k].pc = "append"

\* the view a success leads to
ViewAfter(s) == IF s.update THEN "table" ELSE "cards"

FormViews == {"add_new", "edit_visit"}

\* a success schedules the callback of its form, and the callback, when it
\* runs, issues one fetch of the whole list and sets the view
C20_Callback ==
    [][/\ \A k \in 1..Len(subs) :
             Succeeds(k) => timers' = Append(timers, ViewAfter(subs[k]))
       /\ (timers # <<>> /\ timers' = Tail(timers))
             => /\ issued' = issued + 1
                /\ inflight' = Append(inflight, FetchRequest(issued'))
                /\ view' = Head(timers)
                /\ view' \notin FormViews
                /\ ~form'.mounted]_vars

\* a scheduled callback runs
C20_Eventually ==
    \A n \in 1..MaxRefetches : \A v \in {"cards", "table"} :
        (timers # <<>> /\ Head(timers) = v /\ issued = n)
            ~> (issued = n + 1 /\ view = v /\ ~form.mounted)

\* C20: every successful create or update made through the dashboard is
\* eventually followed by a refetch of the whole list, with which the
\* dashboard leaves the form view: to 'cards' after a create, to 'table'
\* after an update.
C20_RefetchAfterSuccess == C20_Callback /\ C20_Eventually

\* a visit was created, then edited; the update's success issued the third
\* fetch and the dashboard shows the table while it is pending
C20_Witness ==
    /\ issued = 3
    /\ inflight # <<>>
    /\ inflight[Len(inflight)].id = 3
    /\ loading
    /\ view = "table"
    /\ ~form.mounted
    /\ timers = <<>>
    /\ activityLog # <<>>
    /\ activityLog[Len(activityLog)].action_type = "updated"

\* ---- a failed write
\* the handleSubmit call k ends in this step with its write refused
WriteRefused(k) == Returned(k) /\ subs[k].pc = "write"

C21_NothingFollows ==
    [][\A k \in 1..Len(subs) :
          WriteRefused(k)
          => /\ db' = db
             /\ activityLog' = activityLog
             /\ timers' = timers
             /\ subs[k].live => form'.msg = MsgError /\ ~form'.loading]_vars

\* the form that shows the error accepts a submission again
C21_CanResubmit ==
    (form.mounted /\ form.msg = MsgError)
        => /\ ~form.loading
           /\ ENABLED handleSubmit(1, submits + 1)

\* C21: when the insert or the update of the visit returns an error, the
\* submission ends with the store and the activity trail as they were, the
\* error shown as the form's message, no success callback scheduled and the
\* form's loading flag false, and the form can be submitted again.
C21_WriteFailure == C21_NothingFollows /\ []C21_CanResubmit

\* the one submission of a create form was refused: the error is shown,
\* nothing was written or scheduled, and the form is ready
C21_Witness ==
    /\ submits = 1
    /\ subs = <<>>
    /\ form.mounted
    /\ form.initialData = None
    /\ form.msg = MsgError
    /\ ~form.loading
    /\ timers = <<>>
    /\ activityLog = <<>>
    /\ db \in FormStores

\* ---- rollup and tally
RECURSIVE SumOf(_, _)
SumOf(entries, field) ==
    IF entries = <<>> THEN 0
    ELSE Head(entries)[field] + SumOf(Tail(entries), field)

\* C22: every entry of the worker rollup has
\* total = converted + follow_up + rejected; the totals of the entries add
\* up to the number of visit records, and for each status the counts of the
\* entries add up to the tally of that status on the dashboard.
C22_RollupSums ==
    /\ \A e \in 1..Len(workerStats) :
          workerStats[e].total = workerStats[e].converted
                                 + workerStats[e].follow_up
                                 + workerStats[e].rejected
    /\ SumOf(workerStats, "total") = Len(visits)
    /\ \A s \in VisitStatus : SumOf(workerStats, s) = stats[s]

\* three records of three statuses under two workers
C22_Witness ==
    /\ Len(visits) = 3
    /\ Len(workerStats) = 2
    /\ stats.converted = 1 /\ stats.follow_up = 1 /\ stats.rejected = 1
    /\ \E e \in 1..Len(workerStats) :
          workerStats[e].total = 2 /\ workerStats[e].rejected = 1

\* ---- worker profile
\* the n smallest members of a set of positions
FirstIndices(I, n) == {i \in I : Cardinality({j \in I : j < i}) < n}

\* the records listed under "Recent Assignments" are the first five of the
\* rollup group of entry e
ListsGroupOf(e) ==
    RecentAssignments(visits, selectedWorker)
        = Project(visits, FirstIndices(GroupOf(e), 5))

\* C23: in the profile of a selected worker, the records under recent
\* assignments are the first five records, in list order, of the rollup
\* group whose display name is the selected worker, and the list is not
\* empty when that entry's total is greater than zero; this holds for every
\* entry, the "Unknown" entry of the records without a worker name
\* included.
C23_RecentOfGroup ==
    ProfileShown
        => \A e \in 1..Len(workerStats) :
              workerStats[e].name = selectedWorker
                 => /\ ListsGroupOf(workerStats[e])
                    /\ workerStats[e].total > 0
                          => RecentAssignments(visits, selectedWorker) # <<>>

\* what the code does: the same for every entry whose group has no record
\* without a worker name
C23_NamedWorkers ==
    ProfileShown
        => \A e \in 1..Len(workerStats) :
              (/\ workerStats[e].name = selectedWorker
               /\ GroupOf(workerStats[e]) \cap MissingName = {})
                 => /\ ListsGroupOf(workerStats[e])
                    /\ workerStats[e].total > 0
                    /\ RecentAssignments(visits, selectedWorker) # <<>>

\* the profile of "Unknown" shows a total of 1 and lists no record
C23_Witness ==
    /\ ProfileShown
    /\ selectedWorker = Unknown
    /\ Len(visits) = 1
    /\ ~Truthy(visits[1].worker_name)
    /\ ProfileTotal(workerStats, selectedWorker) = 1
    /\ RecentAssignments(visits, selectedWorker) = <<>>

\* six records of Jane under two spellings: her profile lists the first five
C23_FirstFive ==
    /\ ProfileShown
    /\ selectedWorker = Jane
    /\ ProfileTotal(workerStats, selectedWorker) = 6
    /\ Len(RecentAssignments(visits, selectedWorker)) = 5
    /\ \E i \in 1..5 : visits[i].worker_name # Jane

\* ---- activity log of the modal
\* C24: whenever a visit is selected and no activity fetch is in flight,
\* every activity entry displayed belongs to the selected visit, for any
\* order of row clicks, response arrivals and fetch failures.
C24_ActivitiesOfSelected ==
    (selectedVisit # None /\ actflight = <<>>)
        => \A a \in Rows(activities) : a.visit_id = selectedVisit[1].id

\* what the code does: the entries displayed are those of the response that
\* arrived last, all of the one visit that request asked for
C24_ActivitiesOfAnswered ==
    [][activities' # activities
         => \E i \in 1..Len(actflight) :
               /\ actflight[i].served
               /\ actflight' = RemoveAt(actflight, i)
               /\ activities' = actflight[i].data
               /\ \A a \in Rows(activities') :
                     a.visit_id = actflight[i].visitId]_vars

\* visit 2 is selected, nothing is pending, and the log of visit 1 is shown
C24_Witness ==
    /\ selectedVisit = Some(SecondRow)
    /\ actflight = <<>>
    /\ ~loadingActivities
    /\ activities = activitiesOf(Trail, 1)

\* ---- outcome of a fetch of the list
\* every request leaves the pending requests, and the step that answers it
\* sets loading to false
C25_Eventually ==
    /\ \A n \in 1..(MaxRefetches + 1) :
          (n \in RequestIds(inflight)) ~> (n \notin RequestIds(inflight))
    /\ [][\A i \in 1..Len(inflight) : Answered(i) => ~loading']_vars

\* a failure keeps the list and sets the message
C25_Failure ==
    [][\A i \in 1..Len(inflight) :
          FetchVisitsFail(i) => visits' = visits /\ error' # Null]_vars

\* a success shows the rows of the response, and the error is null
C25_Success ==
    [][\A i \in 1..Len(inflight) :
          FetchVisitsOk(i)
             => visits' = inflight[i].data /\ error' = Null]_vars

\* what the code does on a success: the rows are shown and the error stays
\* as it is
C25_SuccessKeepsError ==
    [][\A i \in 1..Len(inflight) :
          FetchVisitsOk(i)
             => visits' = inflight[i].data /\ error' = error]_vars

\* C25: every fetch of the visit list eventually sets loading back to false,
\* whether it succeeds or fails; a failed fetch leaves the displayed list
\* unchanged and sets a non-null error message; a successful fetch replaces
\* the list with the response and leaves the error null.
C25_FetchOutcome == C25_Eventually /\ C25_Failure /\ C25_Success

\* what holds of the code
C25_FetchOutcomeOverlap ==
    C25_Eventually /\ C25_Failure /\ C25_SuccessKeepsError

\* two refetches were pending together; one failed, the other delivered
\* both visits, and the message of the failure stays with the fresh list
C25_Witness ==
    /\ issued = 3
    /\ inflight = <<>>
    /\ ~loading
    /\ Len(visits) = 2
    /\ visits = db
    /\ error = FetchFailure

\* ---- registration
\* two accounts are duplicates of each other
SameAccount(u, w) ==
    \/ u.mobile = w.mobile
    \/ u.email # Null /\ u.email # <<>> /\ u.email = w.email

\* C26: registration never creates a duplicate account: after any sequence
\* of registration attempts, attempts whose duplicate check and insert
\* interleave and attempts whose duplicate check fails included, no two
\* user accounts share the mobile number or the same non-empty email.
C26_NoDuplicateAccount ==
    \A i, j \in 1..Len(users) : i # j => ~SameAccount(users[i], users[j])

\* what the code does: an attempt whose duplicate check returns an account
\* ends there with the message and inserts nothing
C26_FoundDuplicateBlocks ==
    [][\A c \in Clients :
          (/\ reg[c].pc = "check"
           /\ reg'[c].pc = "idle")
             => /\ users' = users
                /\ reg'[c].error = ErrExists
                /\ \E u \in Rows(users) :
                      SameAccount(u, NewUser(reg[c].formData,
                                             reg[c].selectedRole))]_vars

\* the store was empty, both browsers registered the same mobile number and
\* both were told of their success
C26_Witness ==
    /\ Len(users) = 2
    /\ users[1].mobile = Phone10
    /\ users[2].mobile = Phone10
    /\ users[1].is_active /\ users[2].is_active
    /\ \A c \in Clients : Len(reg[c].onSuccess) = 1 /\ reg[c].error = Null

\* ---- one record per create form
\* a create form that already recorded its visit and waits for onSuccess
Recorded == form.mounted /\ form.initialData = None /\ form.msg = MsgSuccess

\* the handleSubmit calls of the mounted form that are running
InFlight == {k \in 1..Len(subs) : subs[k].live}

\* at most one submission of the mounted form is in flight, and the form
\* is loading exactly while there is one
C27_OneInFlight ==
    /\ Cardinality(InFlight) <= 1
    /\ form.loading <=> InFlight # {}

\* no submission starts from a create form that shows its success message
C27_NoSecondSubmission == [][Recorded => ~SubmissionStarts]_vars

\* C27: one completed create form yields exactly one new visit record:
\* between a successful create submission and the close of the form by the
\* delayed success callback no second record is inserted from the same
\* form, and at most one submission of a form is in flight at any time.
C27_OneRecordPerForm == C27_NoSecondSubmission /\ []C27_OneInFlight

\* the form recorded its visit, the callback has not yet closed it, and the
\* submit button is enabled
C27_Witness ==
    /\ Recorded
    /\ ~form.loading
    /\ Len(timers) = 1
    /\ Len(db) = 1
    /\ subs = <<>>
    /\ ENABLED handleSubmit(7, MaxRefetches)

\* ---- views
DashboardView == {"cards", "table", "add_new", "edit_visit", "profiles"}

\* the view is one of the five, and the edit view has a visit to edit,
\* the one the mounted form was opened with
C28_ViewState ==
    /\ view \in DashboardView
    /\ view = "edit_visit" =>
          /\ editingVisit # None
          /\ form.mounted => form.initialData = editingVisit

\* a click on a status card sets the filter to the card's status and the
\* view to the table; the search term and the visit list stay
C28_OpenCard ==
    [][\A status \in VisitStatus :
          handleOpenCard(status) =>
             /\ statusFilter' = status
             /\ view' = "table"
             /\ search' = search
             /\ visits' = visits
             /\ editingVisit' = editingVisit]_vars

\* C28: the dashboard view is always one of cards, table, add_new,
\* edit_visit, profiles; whenever the view is edit_visit a visit to edit is
\* set; opening a status card sets the status filter to the card's status
\* and the view to table and leaves the search term and the visit list
\* unchanged.
C28_Views == []C28_ViewState /\ C28_OpenCard

\* the edit view opened from the detail modal, after a status card was
\* opened with a search term typed earlier
C28_Witness ==
    /\ view = "edit_visit"
    /\ editingVisit = Some(StaleRow)
    /\ form.mounted
    /\ selectedVisit = None
    /\ statusFilter = "follow_up"
    /\ search = <<"a">>

\* ---- failed photo upload
\* the photo reference of a record, none when it is null or empty
PhotoOf(row) == IF Truthy(row.photo_url) THEN row.photo_url ELSE Null

\* a refused upload ends neither the submission nor the loading state:
\* the submission goes on to the write
C29_GoesOn ==
    [][\A k \in 1..Len(subs) :
          UploadEnd(k, FALSE) =>
             /\ Len(subs') = Len(subs)
             /\ subs'[k].pc = "write"
             /\ form' = form
             /\ db' = db]_vars

\* every write keeps the photo reference of the record it overwrites, and a
\* new record has none
C29_KeepsPhoto ==
    [][\A r \in Written :
          IF \E o \in Rows(db) : o.id = r.id
          THEN \A o \in Rows(db) : o.id = r.id => r.photo_url = PhotoOf(o)
          ELSE r.photo_url = Null]_vars

\* a submission whose write was done ends with the success message and the
\* delayed callback
C29_ReportsSuccess ==
    [][\A k \in 1..Len(subs) :
          (subs[k].pc = "append" /\ Returned(k)) =>
             /\ timers' = Append(timers, subs[k].onSuccess)
             /\ subs[k].live =>
                   form'.msg = MsgSuccess /\ ~form'.loading]_vars

\* C29: a failed photo upload does not block or fail the visit write: the
\* visit is still written, its photo reference keeps the value the record
\* had before the submission (null for a new visit), and the submission
\* reports success.
C29_FailedUpload == C29_GoesOn /\ C29_KeepsPhoto /\ C29_ReportsSuccess

\* an edit of a visit with a photo was submitted with a new photo picked,
\* the upload was refused, and the form shows the success message over a
\* record that has its old photo
C29_Witness ==
    /\ form.mounted
    /\ form.photo
    /\ form.initialData = Some(PhotoRow)
    /\ form.msg = MsgSuccess
    /\ Len(db) = 1
    /\ db[1].photo_url = OldUrl
    /\ db[1].client_name = Bob
    /\ Len(activityLog) = 1
    /\ Len(timers) = 1

\* the same for a new visit: it was written without a photo reference
C29_WitnessNew ==
    /\ form.mounted
    /\ form.photo
    /\ form.initialData = None
    /\ form.msg = MsgSuccess
    /\ Len(db) = 1
    /\ db[1].photo_url = Null

================================================================================
